---- MODULE Spec2Model ----
(***************************************************************************)
(* Archive-and-codec subsystem of the platform crate: the Westwood         *)
(* rotate-and-add filename hash (util/crc.rs), the LCW codec               *)
(* (compression/lcw.rs) and the MIX archive reader and manager             *)
(* (assets/mix.rs).                                                        *)
(*                                                                         *)
(* Representation of machine integers.  TLC integers are 32-bit signed,    *)
(* so an i32 is an Int, a u8 is an Int in 0..255, and a u32 is a record    *)
(* [hi, lo] of its two 16-bit halves (value hi * 2^16 + lo).               *)
(***************************************************************************)
EXTENDS Integers, Sequences, FiniteSets, TLC

VARIABLES
    crc_data,     \* the byte string being hashed
    crc_fed,      \* number of bytes of crc_data already passed to update()
    wc,           \* the WestwoodCrc object: crc, staging, index
    crc_out,      \* last value returned by finalize(), with the fed count
    name_hash,    \* values returned by westwood_crc_filename per spelling
    crc_one,      \* what westwood_crc returned on crc_data, once called
    lcw_source,   \* the uncompressed input handed to lcw_compress
    lcw_comp,     \* what lcw_compress returned, once called
    lcw_dec,      \* what lcw_decompress returned on the compressed bytes
    lcw_cap,      \* the length of the buffer handed to lcw_compress
    lcw_raw,      \* a command stream handed to lcw_decompress, and what it returned
    lcw_match,    \* a position of lcw_source handed to find_match, and what it returned
    rsa_ret,      \* the last call into crypto/rsa.rs and what it returned
    fs,           \* the files on disk: path |-> Some(bytes), or None for no file
    slice_search, \* which slice::binary_search_by the standard library has
    mf,           \* the MixFile that MixFile::open returned, once it has
    mf_ret,       \* the last call on mf and what it returned
    mf_last,      \* the last cache()/uncache() call on mf that took effect
    mixes,        \* MixManager::mixes
    mgr_ret,      \* the last call on the manager and what it returned
    mgr_removed   \* whether unregister() has removed an archive

crc_vars == <<crc_data, crc_fed, wc, crc_out, name_hash, crc_one>>

lcw_vars == <<lcw_source, lcw_comp, lcw_dec, lcw_cap, lcw_raw, lcw_match>>

rsa_vars == <<rsa_ret>>

mix_vars == <<fs, slice_search, mf, mf_ret, mf_last>>

mgr_vars == <<mixes, mgr_ret, mgr_removed>>

vars == <<crc_data, crc_fed, wc, crc_out, name_hash, crc_one, lcw_source, lcw_comp, lcw_dec,
          lcw_cap, lcw_raw, lcw_match, rsa_ret, fs, slice_search, mf, mf_ret, mf_last, mixes, mgr_ret, mgr_removed>>

\* ------------------------------------------------------------------------
\* Bounds of the model
\* ------------------------------------------------------------------------
MaxCrcLen == 5

MaxLcwLen == 8

\* entries per archive
MaxEntries == 2

\* archives registered with a manager at a time
MaxMixes == 2

\* largest base, exponent and modulus handed to mod_pow as small integers
MaxBase == 5

MaxExp == 5

MaxModulus == 6

\* longest byte slice handed to MixHeader::from_bytes
MaxHeaderLen == 7

\* longest command stream built from StreamBytes
MaxStreamLen == 3

\* length of the largest output buffer handed to lcw_decompress with a
\* command stream
MaxRoom == 16

\* ------------------------------------------------------------------------
\* Machine integers
\* ------------------------------------------------------------------------
None == [some |-> FALSE]

Some(v) == [some |-> TRUE, val |-> v]

Ok(v) == [ok |-> TRUE, val |-> v]

Err(e) == [ok |-> FALSE, err |-> e]

\* a | b on u16
BitOr(a, b) ==
    LET bit(w) == IF (a \div w) % 2 = 1 \/ (b \div w) % 2 = 1 THEN w ELSE 0
    IN  ((((bit(1) + bit(2)) + (bit(4) + bit(8))) + ((bit(16) + bit(32)) + (bit(64) + bit(128))))
         + (((bit(256) + bit(512)) + (bit(1024) + bit(2048)))
            + ((bit(4096) + bit(8192)) + (bit(16384) + bit(32768)))))

\* a & b on u16
BitAnd(a, b) ==
    LET bit(w) == IF (a \div w) % 2 = 1 /\ (b \div w) % 2 = 1 THEN w ELSE 0
    IN  ((((bit(1) + bit(2)) + (bit(4) + bit(8))) + ((bit(16) + bit(32)) + (bit(64) + bit(128))))
         + (((bit(256) + bit(512)) + (bit(1024) + bit(2048)))
            + ((bit(4096) + bit(8192)) + (bit(16384) + bit(32768)))))

U32Zero == [hi |-> 0, lo |-> 0]

\* u32::from_le_bytes([b0, b1, b2, b3])
u32_from_le_bytes(b0, b1, b2, b3) == [hi |-> b2 + 256 * b3, lo |-> b0 + 256 * b1]

u16_from_be_bytes(b0, b1) == b1 + 256 * b0

\* u16::from_le_bytes([b0, b1])
u16_from_le_bytes(b0, b1) == b0 + 256 * b1

\* `x as i32` for a u32 x: same bits, two's complement value
u32_as_i32(x) ==
    IF x.hi >= 32768 THEN (x.hi - 65536) * 65536 + x.lo ELSE x.hi * 65536 + x.lo

\* i32::from_le_bytes([b0, b1, b2, b3])
i32_from_le_bytes(b0, b1, b2, b3) == u32_as_i32(u32_from_le_bytes(b0, b1, b2, b3))

shift_left1(x) ==
    [hi |-> ((x.hi * 2) % 65536) + (x.lo \div 32768),
     lo |-> (x.lo * 2) % 65536]

\* u32::rotate_left(1)
rotate_left1(x) ==
    [hi |-> ((x.hi * 2) % 65536) + (x.lo \div 32768),
     lo |-> ((x.lo * 2) % 65536) + (x.hi \div 32768)]

\* u32::wrapping_add
wrapping_add(a, b) ==
    [hi |-> (a.hi + b.hi + ((a.lo + b.lo) \div 65536)) % 65536,
     lo |-> (a.lo + b.lo) % 65536]

\* (byte as u32) << (index * 8), index in 0..3
byte_shl(byte, index) ==
    IF index = 0 THEN [hi |-> 0, lo |-> byte]
    ELSE IF index = 1 THEN [hi |-> 0, lo |-> byte * 256]
    ELSE IF index = 2 THEN [hi |-> byte, lo |-> 0]
    ELSE [hi |-> (byte * 256) % 65536, lo |-> 0]

\* a | b on u32
u32_or(a, b) == [hi |-> BitOr(a.hi, b.hi), lo |-> BitOr(a.lo, b.lo)]

\* ------------------------------------------------------------------------
\* util/crc.rs: Westwood rotate-and-add hash
\* ------------------------------------------------------------------------

\* first loop of westwood_crc: bytes staged until 4 are available
RECURSIVE crc_leading(_, _)
crc_leading(s, data) ==
    IF s.bytes_remaining > 0 /\ s.index < 4
    THEN LET staging == u32_or(s.staging, byte_shl(data[s.data_ptr + 1], s.index))
             index   == s.index + 1
         IN  crc_leading(
                [crc |-> IF index = 4 THEN wrapping_add(rotate_left1(s.crc), staging)
                                      ELSE s.crc,
                 staging |-> IF index = 4 THEN U32Zero ELSE staging,
                 index |-> IF index = 4 THEN 0 ELSE index,
                 bytes_remaining |-> s.bytes_remaining - 1,
                 data_ptr |-> s.data_ptr + 1], data)
    ELSE s

\* second loop of westwood_crc: whole 4-byte chunks
RECURSIVE crc_chunks(_, _)
crc_chunks(s, data) ==
    IF s.bytes_remaining >= 4
    THEN LET chunk == u32_from_le_bytes(data[s.data_ptr + 1], data[s.data_ptr + 2],
                                        data[s.data_ptr + 3], data[s.data_ptr + 4])
         IN  crc_chunks([s EXCEPT !.crc = wrapping_add(rotate_left1(s.crc), chunk),
                                  !.data_ptr = s.data_ptr + 4,
                                  !.bytes_remaining = s.bytes_remaining - 4], data)
    ELSE s

\* third loop of westwood_crc: remaining bytes (< 4)
RECURSIVE crc_trailing(_, _)
crc_trailing(s, data) ==
    IF s.bytes_remaining > 0
    THEN crc_trailing([s EXCEPT
            !.staging = u32_or(s.staging, byte_shl(data[s.data_ptr + 1], s.index)),
            !.index = s.index + 1,
            !.data_ptr = s.data_ptr + 1,
            !.bytes_remaining = s.bytes_remaining - 1], data)
    ELSE s

westwood_crc_rotated(data) ==
    LET s0 == [crc |-> U32Zero, staging |-> U32Zero, index |-> 0,
               bytes_remaining |-> Len(data), data_ptr |-> 0]
        s3 == crc_trailing(crc_chunks(crc_leading(s0, data), data), data)
    IN  IF s3.index > 0 THEN rotate_left1(wrapping_add(s3.crc, s3.staging)) ELSE s3.crc

westwood_crc(data) ==
    LET s0 == [crc |-> U32Zero, staging |-> U32Zero, index |-> 0,
               bytes_remaining |-> Len(data), data_ptr |-> 0]
        s3 == crc_trailing(crc_chunks(crc_leading(s0, data), data), data)
    IN  IF s3.index > 0 THEN wrapping_add(rotate_left1(s3.crc), s3.staging) ELSE s3.crc

\* str::to_ascii_uppercase
to_ascii_uppercase(name) ==
    [i \in 1..Len(name) |-> IF name[i] \in 97..122 THEN name[i] - 32 ELSE name[i]]

\* str::to_ascii_lowercase
to_ascii_lowercase(name) ==
    [i \in 1..Len(name) |-> IF name[i] \in 65..90 THEN name[i] + 32 ELSE name[i]]

westwood_crc_filename_nofold(name) == westwood_crc(name)

westwood_crc_filename(name) == westwood_crc(to_ascii_uppercase(name))

\* WestwoodCrc::new
WestwoodCrc_new == [crc |-> U32Zero, staging |-> U32Zero, index |-> 0]

\* one iteration of the loop of WestwoodCrc::update
WestwoodCrc_push(self, byte) ==
    LET staging == u32_or(self.staging, byte_shl(byte, self.index))
        index   == self.index + 1
    IN  IF index = 4
        THEN [crc |-> wrapping_add(rotate_left1(self.crc), staging),
              staging |-> U32Zero, index |-> 0]
        ELSE [crc |-> self.crc, staging |-> staging, index |-> index]

RECURSIVE WestwoodCrc_update_lossy(_, _)
WestwoodCrc_update_lossy(self, data) ==
    IF Len(data) = 0 THEN [self EXCEPT !.staging = U32Zero, !.index = 0]
    ELSE WestwoodCrc_update_lossy(WestwoodCrc_push(self, Head(data)), Tail(data))

RECURSIVE WestwoodCrc_update(_, _)
WestwoodCrc_update(self, data) ==
    IF Len(data) = 0 THEN self
    ELSE WestwoodCrc_update(WestwoodCrc_push(self, Head(data)), Tail(data))

WestwoodCrc_finalize(self) ==
    IF self.index > 0 THEN wrapping_add(rotate_left1(self.crc), self.staging)
    ELSE self.crc

\* ------------------------------------------------------------------------
\* compression/lcw.rs: LCW codec
\* ------------------------------------------------------------------------
MAX_OFFSET == 4095

MAX_BACKREF_MATCH == 10

MIN_MATCH == 3

Min(a, b) == IF a < b THEN a ELSE b

\* a loop: the body `step` runs while `more` holds; fuel is an upper bound
\* on the number of iterations (the iterations are split in halves only to
\* keep the evaluation shallow)
RECURSIVE Loop(_, _, _, _)
Loop(step(_), more(_), s, fuel) ==
    IF more(s)
    THEN IF fuel = 0 THEN s
         ELSE IF fuel = 1 THEN step(s)
         ELSE Loop(step, more, Loop(step, more, s, fuel \div 2), fuel - (fuel \div 2))
    ELSE s

\* e, evaluated after v has been: the components of a tuple are evaluated in
\* order
Strict(v, e) == <<v, e>>[2]

\* the inner while loop of find_match: length of the common run, capped
RECURSIVE match_run(_, _, _, _, _)
match_run(data, ref_pos, pos, len, max_match) ==
    IF len < max_match /\ data[ref_pos + len + 1] = data[pos + len + 1]
    THEN match_run(data, ref_pos, pos, len + 1, max_match)
    ELSE len

\* body of the for loop of find_match, for one ref_pos; the loop visits
\* (search_start..pos).rev(), so ref_pos counts down
find_match_step(data, pos, max_match, s) ==
    LET len == match_run(data, s.ref_pos, pos, 0, max_match)
    IN  IF len >= MIN_MATCH /\ len >= s.best_len
        THEN [ref_pos |-> s.ref_pos - 1, best_len |-> len, best_offset |-> pos - s.ref_pos,
              brk |-> (len = MAX_BACKREF_MATCH /\ pos - s.ref_pos = 1)]
        ELSE [s EXCEPT !.ref_pos = s.ref_pos - 1]

\* find_match(data, pos), pos counted from 0
find_match(data, pos) ==
    IF pos = 0 THEN [len |-> 0, offset |-> 0]
    ELSE LET search_start == IF pos > MAX_OFFSET THEN pos - MAX_OFFSET ELSE 0
             max_match    == Min(MAX_BACKREF_MATCH, Len(data) - pos)
             s == Loop(LAMBDA t : find_match_step(data, pos, max_match, t),
                       LAMBDA t : t.ref_pos >= search_start /\ ~t.brk,
                       [ref_pos |-> pos - 1, best_len |-> 0, best_offset |-> 0,
                        brk |-> FALSE],
                       pos - search_start)
         IN  [len |-> s.best_len, offset |-> s.best_offset]

\* count_field | offset_high of a match: the first byte of its back-reference
backref_first_byte(m) ==
    BitOr(BitAnd(m.len - 3, 7) * 16, BitAnd(m.offset \div 256, 15))

\* body of the while loop that extends a literal run
literal_run_step(source, src_pos, s) ==
    LET next == find_match(source, src_pos + s.literal_count)
    IN  IF next.len >= MIN_MATCH /\ backref_first_byte(next) /= 0
        THEN [s EXCEPT !.brk = TRUE]
        ELSE [s EXCEPT !.literal_count = s.literal_count + 1]

literal_run_64(source, src_pos) ==
    Loop(LAMBDA t : literal_run_step(source, src_pos, t),
         LAMBDA t : src_pos + t.literal_count < Len(source) /\ t.literal_count < 64
                    /\ ~t.brk,
         [literal_count |-> 1, brk |-> FALSE], 64).literal_count

\* the literal run that lcw_compress emits at src_pos
literal_run(source, src_pos) ==
    Loop(LAMBDA t : literal_run_step(source, src_pos, t),
         LAMBDA t : src_pos + t.literal_count < Len(source) /\ t.literal_count < 63
                    /\ ~t.brk,
         [literal_count |-> 1, brk |-> FALSE], 63).literal_count

\* body of the main loop of lcw_compress; dest holds the bytes written so
\* far and dest_len is the capacity of the buffer
lcw_compress_step(source, dest_len, s) ==
    LET m == find_match(source, s.src_pos)
    IN  IF m.len >= MIN_MATCH /\ backref_first_byte(m) /= 0
        THEN IF Len(s.dest) + 2 > dest_len
             THEN [s EXCEPT !.err = TRUE]
             ELSE [s EXCEPT !.dest = s.dest \o <<backref_first_byte(m),
                                                 BitAnd(m.offset, 255)>>,
                            !.src_pos = s.src_pos + m.len]
        ELSE LET literal_count == literal_run(source, s.src_pos)
             IN  IF Len(s.dest) + 1 + literal_count > dest_len
                 THEN [s EXCEPT !.err = TRUE]
                 ELSE [s EXCEPT !.dest = s.dest \o <<BitOr(128, literal_count - 1)>>
                                 \o SubSeq(source, s.src_pos + 1, s.src_pos + literal_count),
                                !.src_pos = s.src_pos + literal_count]

\* lcw_compress(source, dest): Ok carries the dst_pos bytes written to dest
lcw_compress(source, dest_len) ==
    LET s == Loop(LAMBDA t : lcw_compress_step(source, dest_len, t),
                  LAMBDA t : t.src_pos < Len(source) /\ ~t.err,
                  [src_pos |-> 0, dest |-> <<>>, err |-> FALSE], Len(source))
    IN  IF s.err \/ Len(s.dest) >= dest_len
        THEN Err("BufferTooSmall")
        ELSE Ok(s.dest \o <<0>>)

lcw_copy_literal_repeat(source, dest, src_pos, dst_pos, count) ==
    Loop(LAMBDA t : [i |-> t.i + 1, src_pos |-> t.src_pos + 1, dst_pos |-> t.dst_pos + 1,
                     dest |-> [t.dest EXCEPT ![t.dst_pos + 1] = source[src_pos + 1]]],
         LAMBDA t : t.i < count /\ ~(t.src_pos >= Len(source) \/ t.dst_pos >= Len(t.dest)),
         [i |-> 0, src_pos |-> src_pos, dst_pos |-> dst_pos, dest |-> dest], count)

\* the literal copy loop of lcw_decompress: count iterations unless it breaks
lcw_copy_literal(source, dest, src_pos, dst_pos, count) ==
    Loop(LAMBDA t : [i |-> t.i + 1, src_pos |-> t.src_pos + 1, dst_pos |-> t.dst_pos + 1,
                     dest |-> [t.dest EXCEPT ![t.dst_pos + 1] = source[t.src_pos + 1]]],
         LAMBDA t : t.i < count /\ ~(t.src_pos >= Len(source) \/ t.dst_pos >= Len(t.dest)),
         [i |-> 0, src_pos |-> src_pos, dst_pos |-> dst_pos, dest |-> dest], count)

lcw_copy_backref_forward(dest, ref_start, dst_pos, count) ==
    Loop(LAMBDA t : IF dst_pos + t.i >= Len(t.dest)
                    THEN [t EXCEPT !.panic = TRUE]
                    ELSE [t EXCEPT !.i = t.i + 1, !.dst_pos = t.dst_pos + 1,
                            !.dest = [t.dest EXCEPT ![t.dst_pos + 1] = t.dest[dst_pos + t.i + 1]]],
         LAMBDA t : t.i < count /\ t.dst_pos < Len(t.dest) /\ ~t.panic,
         [i |-> 0, dst_pos |-> dst_pos, dest |-> dest, panic |-> FALSE], count)

lcw_copy_backref_snapshot(dest, ref_start, dst_pos, count) ==
    Loop(LAMBDA t : IF ref_start + t.i >= Len(dest)
                    THEN [t EXCEPT !.panic = TRUE]
                    ELSE [t EXCEPT !.i = t.i + 1, !.dst_pos = t.dst_pos + 1,
                            !.dest = [t.dest EXCEPT ![t.dst_pos + 1] = dest[ref_start + t.i + 1]]],
         LAMBDA t : t.i < count /\ t.dst_pos < Len(t.dest) /\ ~t.panic,
         [i |-> 0, dst_pos |-> dst_pos, dest |-> dest, panic |-> FALSE], count)

\* the back-reference copy loop of lcw_decompress: dest[dst_pos] =
\* dest[ref_start + i] for i in 0..count unless it breaks; an index past the
\* end of dest panics
lcw_copy_backref(dest, ref_start, dst_pos, count) ==
    Loop(LAMBDA t : IF ref_start + t.i >= Len(t.dest)
                    THEN [t EXCEPT !.panic = TRUE]
                    ELSE [t EXCEPT !.i = t.i + 1, !.dst_pos = t.dst_pos + 1,
                            !.dest = [t.dest EXCEPT ![t.dst_pos + 1] = t.dest[ref_start + t.i + 1]]],
         LAMBDA t : t.i < count /\ t.dst_pos < Len(t.dest) /\ ~t.panic,
         [i |-> 0, dst_pos |-> dst_pos, dest |-> dest, panic |-> FALSE], count)

\* body of the command loop of lcw_decompress; s.state is "run" while the
\* loop goes on, "end" after the 0x00 command, else the error
lcw_decompress_step(source, s) ==
    LET cmd     == source[s.src_pos + 1]
        src_pos == s.src_pos + 1
    IN  IF cmd = 0 THEN [s EXCEPT !.src_pos = src_pos, !.state = "end"]
        ELSE IF BitAnd(cmd, 128) /= 0
        THEN IF BitAnd(cmd, 64) /= 0 /\ src_pos >= Len(source)
             THEN [s EXCEPT !.src_pos = src_pos, !.state = "InvalidData"]
             ELSE LET long  == BitAnd(cmd, 64) /= 0
                      count == IF long
                               THEN BitOr(BitAnd(cmd, 63) * 256, source[src_pos + 1]) + 1
                               ELSE BitAnd(cmd, 63) + 1
                      c     == lcw_copy_literal(source, s.dest,
                                                IF long THEN src_pos + 1 ELSE src_pos,
                                                s.dst_pos, count)
                  IN  [s EXCEPT !.src_pos = c.src_pos, !.dst_pos = c.dst_pos,
                                !.dest = c.dest]
        ELSE LET count == BitAnd(cmd \div 16, 7) + 3
             IN  IF src_pos >= Len(source)
                 THEN [s EXCEPT !.src_pos = src_pos, !.state = "InvalidData"]
                 ELSE LET offset == BitOr(BitAnd(cmd, 15) * 256, source[src_pos + 1])
                      IN  IF offset = 0 \/ offset > s.dst_pos
                          THEN [s EXCEPT !.src_pos = src_pos + 1, !.state = "InvalidData"]
                          ELSE LET c == lcw_copy_backref(s.dest, s.dst_pos - offset,
                                                         s.dst_pos, count)
                               IN  [s EXCEPT !.src_pos = src_pos + 1,
                                             !.dst_pos = c.dst_pos, !.dest = c.dest,
                                             !.state = IF c.panic THEN "panic" ELSE "run"]

lcw_decompress_lenient(source, dest) ==
    LET s == Loop(LAMBDA t : lcw_decompress_step(source, t),
                  LAMBDA t : t.src_pos < Len(source) /\ t.state = "run",
                  [src_pos |-> 0, dst_pos |-> 0, dest |-> dest, state |-> "run"],
                  Len(source))
    IN  IF s.state \in {"run", "end", "InvalidData"}
        THEN Ok([n |-> s.dst_pos, dest |-> s.dest])
        ELSE Err(s.state)

\* lcw_decompress(source, dest): dest is the caller's buffer; Ok carries
\* dst_pos and the buffer as the call leaves it
lcw_decompress(source, dest) ==
    LET s == Loop(LAMBDA t : lcw_decompress_step(source, t),
                  LAMBDA t : t.src_pos < Len(source) /\ t.state = "run",
                  [src_pos |-> 0, dst_pos |-> 0, dest |-> dest, state |-> "run"],
                  Len(source))
    IN  IF s.state \in {"run", "end"}
        THEN Ok([n |-> s.dst_pos, dest |-> s.dest])
        ELSE Err(s.state)

\* lcw_max_compressed_size
lcw_max_compressed_size(uncompressed_size) == ((uncompressed_size * 65) \div 64) + 2

\* ------------------------------------------------------------------------
\* crypto/rsa.rs: key recovery.  A BigUint is the sequence of its u32 digits,
\* least significant first; a u64 is the sequence of its four 16-bit digits,
\* least significant first.
\* ------------------------------------------------------------------------

\* WESTWOOD_PUBLIC_KEY.modulus
WESTWOOD_MODULUS ==
    <<2, 40, 81, 188, 218, 8, 109, 57, 252, 228, 86, 81, 96, 214, 81,
      113, 63, 162, 232, 170, 84, 250, 102, 130, 176, 74, 171, 221, 14, 106,
      248, 176, 193, 230, 209, 251, 79, 61, 170, 67, 127, 21>>

\* WESTWOOD_PUBLIC_KEY.exponent = 65537 = 0x0001_0001
WESTWOOD_EXPONENT == [hi |-> 1, lo |-> 1]

RSA_PLAIN_BLOCK_SIZE == 39

RSA_CRYPT_BLOCK_SIZE == 40

\* RsaPublicKey::plain_block_size / crypt_block_size of WESTWOOD_PUBLIC_KEY
plain_block_size == Len(WESTWOOD_MODULUS) - 1

crypt_block_size == Len(WESTWOOD_MODULUS)

\* the while loop that pops leading zero digits
trim(digits) ==
    Loop(LAMBDA d : SubSeq(d, 1, Len(d) - 1),
         LAMBDA d : Len(d) > 1 /\ d[Len(d)] = U32Zero,
         digits, Len(digits))

\* BigUint::from_u32
BigUint_from_u32(value) == <<value>>

\* (digit << 8) | byte on u32
u32_shl8_or(digit, byte) ==
    [hi |-> ((digit.hi * 256) % 65536) + (digit.lo \div 256),
     lo |-> BitOr((digit.lo * 256) % 65536, byte)]

\* BigUint::from_be_bytes
BigUint_from_be_bytes(bytes) ==
    IF Len(bytes) = 0 THEN <<U32Zero>>
    ELSE trim(Loop(LAMBDA t :
                       LET end   == t.i
                           start == IF t.i >= 4 THEN t.i - 4 ELSE 0
                           digit == Loop(LAMBDA u : [j |-> u.j + 1,
                                             digit |-> u32_shl8_or(u.digit, bytes[u.j + 1])],
                                         LAMBDA u : u.j < end,
                                         [j |-> start, digit |-> U32Zero], 4).digit
                       IN  [i |-> start, digits |-> Append(t.digits, digit)],
                   LAMBDA t : t.i > 0,
                   [i |-> Len(bytes), digits |-> <<>>], (Len(bytes) + 3) \div 4).digits)

\* u32::to_be_bytes
u32_to_be_bytes(x) == <<x.hi \div 256, x.hi % 256, x.lo \div 256, x.lo % 256>>

\* BigUint::to_be_bytes_padded
BigUint_to_be_bytes_padded(self, min_len) ==
    LET pad(trimmed) ==
            IF Len(trimmed) < min_len
            THEN [i \in 1..(min_len - Len(trimmed)) |-> 0] \o trimmed
            ELSE trimmed
        trim_bytes(all) ==
            pad(Loop(LAMBDA b : Tail(b),
                     LAMBDA b : Len(b) > 1 /\ b[1] = 0,
                     all, 4 * Len(self)))
    IN  trim_bytes(Loop(LAMBDA t : [i |-> t.i - 1,
                                    bytes |-> t.bytes \o u32_to_be_bytes(self[t.i])],
                        LAMBDA t : t.i >= 1,
                        [i |-> Len(self), bytes |-> <<>>], Len(self)).bytes)

\* BigUint::is_zero / is_odd
BigUint_is_zero(self) == Len(self) = 1 /\ self[1] = U32Zero

BigUint_is_odd(self) == self[1].lo % 2 = 1

\* BigUint::shr1
BigUint_shr1(self) ==
    trim(Loop(LAMBDA t :
                  LET digit == t.digits[t.i]
                  IN  [i |-> t.i - 1, carry |-> digit.lo % 2,
                       digits |-> [t.digits EXCEPT ![t.i] =
                           [hi |-> (digit.hi \div 2) + (t.carry * 32768),
                            lo |-> (digit.lo \div 2) + ((digit.hi % 2) * 32768)]]],
              LAMBDA t : t.i >= 1,
              [i |-> Len(self), carry |-> 0, digits |-> self], Len(self)).digits)

\* BigUint::shl1
BigUint_shl1(self) ==
    LET top(s) ==
            trim(IF s.carry /= 0
                 THEN [s.result EXCEPT ![Len(self) + 1] = [hi |-> 0, lo |-> s.carry]]
                 ELSE s.result)
    IN  top(Loop(LAMBDA t :
                      LET digit == self[t.i]
                      IN  [i |-> t.i + 1, carry |-> digit.hi \div 32768,
                           result |-> [t.result EXCEPT ![t.i] =
                               [hi |-> ((digit.hi * 2) % 65536) + (digit.lo \div 32768),
                                lo |-> ((digit.lo * 2) % 65536) + t.carry]]],
                  LAMBDA t : t.i <= Len(self),
                  [i |-> 1, carry |-> 0, result |-> [k \in 1..(Len(self) + 1) |-> U32Zero]],
                  Len(self)))

\* (a as u64) * (b as u64) for 16-bit a and b, as a u32
mul16(a, b) ==
    LET p0 == a * (b % 256)
        p1 == a * (b \div 256)
        t  == p0 + ((p1 % 256) * 256)
    IN  [hi |-> (t \div 65536) + (p1 \div 256), lo |-> t % 65536]

\* (a as u64) * (b as u64) for u32 a and b
u64_mul(a, b) ==
    LET ll == mul16(a.lo, b.lo)
        lh == mul16(a.lo, b.hi)
        hl == mul16(a.hi, b.lo)
        hh == mul16(a.hi, b.hi)
        t1 == ll.hi + lh.lo + hl.lo
        t2 == lh.hi + hl.hi + hh.lo + (t1 \div 65536)
    IN  <<ll.lo, t1 % 65536, t2 % 65536, hh.hi + (t2 \div 65536)>>

\* x + y on u64, wrapping
u64_add(x, y) ==
    LET t0 == x[1] + y[1]
        t1 == x[2] + y[2] + (t0 \div 65536)
        t2 == x[3] + y[3] + (t1 \div 65536)
        t3 == x[4] + y[4] + (t2 \div 65536)
    IN  <<t0 % 65536, t1 % 65536, t2 % 65536, t3 % 65536>>

U64Zero == <<0, 0, 0, 0>>

\* BigUint::mul
BigUint_mul(self, other) ==
    LET to_u32(carried) ==
            trim([n \in 1..Len(carried) |-> [hi |-> carried[n][2], lo |-> carried[n][1]]])
        propagate(sums) ==
            to_u32(Loop(LAMBDA t :
                            LET digit == u64_add(t.result[t.i], t.carry)
                            IN  [i |-> t.i + 1,
                                 carry |-> <<digit[3], digit[4], 0, 0>>,
                                 result |-> [t.result EXCEPT ![t.i] =
                                                <<digit[1], digit[2], 0, 0>>]],
                        LAMBDA t : t.i <= Len(t.result),
                        [i |-> 1, carry |-> U64Zero, result |-> sums],
                        Len(self) + Len(other)).result)
    IN  propagate(Loop(LAMBDA t :
                         LET i == t.k \div Len(other)
                             j == t.k % Len(other)
                         IN  [k |-> t.k + 1,
                              result |-> [t.result EXCEPT ![i + j + 1] =
                                  u64_add(t.result[i + j + 1],
                                          u64_mul(self[i + 1], other[j + 1]))]],
                     LAMBDA t : t.k < Len(self) * Len(other),
                     [k |-> 0, result |-> [n \in 1..(Len(self) + Len(other)) |-> U64Zero]],
                     Len(self) * Len(other)).result)

\* u32::cmp
u32_cmp(a, b) ==
    IF a.hi < b.hi \/ (a.hi = b.hi /\ a.lo < b.lo) THEN "Less"
    ELSE IF a = b THEN "Equal" ELSE "Greater"

\* BigUint::cmp
BigUint_cmp(self, other) ==
    IF Len(self) /= Len(other)
    THEN (IF Len(self) < Len(other) THEN "Less" ELSE "Greater")
    ELSE Loop(LAMBDA t : [i |-> t.i - 1, ord |-> u32_cmp(self[t.i], other[t.i])],
              LAMBDA t : t.i >= 1 /\ t.ord = "Equal",
              [i |-> Len(self), ord |-> "Equal"], Len(self)).ord

\* BigUint::sub (assumes self >= other)
BigUint_sub(self, other) ==
    trim(Loop(LAMBDA t :
                  LET a  == t.result[t.i]
                      b  == IF t.i <= Len(other) THEN other[t.i] ELSE U32Zero
                      lo == a.lo - b.lo - t.borrow
                      hi == a.hi - b.hi - (IF lo < 0 THEN 1 ELSE 0)
                  IN  [i |-> t.i + 1, borrow |-> IF hi < 0 THEN 1 ELSE 0,
                       result |-> [t.result EXCEPT ![t.i] =
                                      [hi |-> hi % 65536, lo |-> lo % 65536]]],
              LAMBDA t : t.i <= Len(t.result),
              [i |-> 1, borrow |-> 0, result |-> self], Len(self)).result)

\* 32 - u32::leading_zeros
RECURSIVE bits16(_)
bits16(x) == IF x = 0 THEN 0 ELSE 1 + bits16(x \div 2)

\* BigUint::bit_length
BigUint_bit_length(self) ==
    IF BigUint_is_zero(self) THEN 0
    ELSE LET top_digit == self[Len(self)]
             top_bits  == IF top_digit.hi /= 0 THEN 16 + bits16(top_digit.hi)
                          ELSE bits16(top_digit.lo)
         IN  ((Len(self) - 1) * 32) + top_bits

\* BigUint::modulo
BigUint_modulo(self, modulus) ==
    LET reduce(shift, shifted_mod) ==
            Loop(LAMBDA t :
                     [n |-> t.n + 1,
                      result |-> IF BigUint_cmp(t.result, t.shifted_mod) /= "Less"
                                 THEN BigUint_sub(t.result, t.shifted_mod)
                                 ELSE t.result,
                      shifted_mod |-> BigUint_shr1(t.shifted_mod)],
                 LAMBDA t : t.n <= shift,
                 [n |-> 0, result |-> self, shifted_mod |-> shifted_mod],
                 shift + 1).result
        align(shift) ==
            reduce(shift, Loop(LAMBDA t : [n |-> t.n + 1, m |-> BigUint_shl1(t.m)],
                               LAMBDA t : t.n < shift,
                               [n |-> 0, m |-> modulus], shift).m)
        bits(self_bits, mod_bits) ==
            IF self_bits < mod_bits THEN self ELSE align(self_bits - mod_bits)
    IN  IF BigUint_cmp(self, modulus) = "Less" THEN self
        ELSE bits(BigUint_bit_length(self), BigUint_bit_length(modulus))

\* mod_pow; a zero modulus panics
mod_pow(base, exp, modulus) ==
    IF BigUint_is_zero(modulus) THEN Err("panic")
    ELSE Ok(Loop(LAMBDA t :
                     [result |-> IF BigUint_is_odd(t.exp)
                                 THEN BigUint_modulo(BigUint_mul(t.result, t.base), modulus)
                                 ELSE t.result,
                      base |-> BigUint_modulo(BigUint_mul(t.base, t.base), modulus),
                      exp |-> BigUint_shr1(t.exp)],
                 LAMBDA t : ~BigUint_is_zero(t.exp),
                 [result |-> BigUint_from_u32([hi |-> 0, lo |-> 1]),
                  base |-> BigUint_modulo(base, modulus), exp |-> exp],
                 BigUint_bit_length(exp)).result)

\* RsaPublicKey::decrypt_block of WESTWOOD_PUBLIC_KEY
decrypt_block(ciphertext) ==
    BigUint_to_be_bytes_padded(
        mod_pow(BigUint_from_be_bytes(ciphertext),
                BigUint_from_u32(WESTWOOD_EXPONENT),
                BigUint_from_be_bytes(WESTWOOD_MODULUS)).val,
        plain_block_size)

\* decrypt_mix_key
decrypt_mix_key(encrypted_key_block) ==
    LET truncate(result) == SubSeq(result, 1, Min(56, Len(result)))
    IN  truncate(Loop(LAMBDA t :
                           LET start == t.block_idx * RSA_CRYPT_BLOCK_SIZE
                               end   == start + RSA_CRYPT_BLOCK_SIZE
                           IN  [block_idx |-> t.block_idx + 1,
                                result |-> IF end <= Len(encrypted_key_block)
                                           THEN t.result \o decrypt_block(
                                                    SubSeq(encrypted_key_block, start + 1, end))
                                           ELSE t.result],
                       LAMBDA t : t.block_idx < 2,
                       [block_idx |-> 0, result |-> <<>>], 2).result)

\* ------------------------------------------------------------------------
\* crypto/blowfish.rs: BlowfishEngine.  A 64-bit-block Feistel cipher of 16
\* rounds; the subkeys are derived from the key bytes, cycling through the key.
\* The cipher state is the sequence of its 18 round subkeys of 4 bytes.
\* ------------------------------------------------------------------------

\* a ^ b on u8
BitXor(a, b) ==
    LET bit(w) == (((a \div w) + (b \div w)) % 2) * w
    IN  ((bit(1) + bit(2)) + (bit(4) + bit(8))) + ((bit(16) + bit(32)) + (bit(64) + bit(128)))

Xor4(x, y) ==
    <<BitXor(x[1], y[1]), BitXor(x[2], y[2]), BitXor(x[3], y[3]), BitXor(x[4], y[4])>>

\* BlowfishEngine::set_key
bf_set_key(key) ==
    LET byte(i, k) == BitXor((i * 13 + k * 7) % 256,
                             key[((4 * (i - 1) + k - 1) % Len(key)) + 1])
        subkey(i) == <<byte(i, 1), byte(i, 2), byte(i, 3), byte(i, 4)>>
    IN  <<subkey(1), subkey(2), subkey(3), subkey(4), subkey(5), subkey(6),
          subkey(7), subkey(8), subkey(9), subkey(10), subkey(11), subkey(12),
          subkey(13), subkey(14), subkey(15), subkey(16), subkey(17), subkey(18)>>

\* the round's mixing function
bf_F(x) ==
    LET S(n, b) == (b * 167 + n * 59 + 13) % 256
        spread(m) == <<(m + 1) % 256, (m + 2) % 256, (m + 3) % 256, (m + 4) % 256>>
    IN  spread(BitXor((S(1, x[1]) + S(2, x[2])) % 256, S(3, x[3])) + S(4, x[4]))

\* sixteen rounds over the subkeys in the order given, the final swap undone
bf_crypt(block, P) ==
    LET round(t, l) == [i |-> t.i + 1, l |-> Xor4(bf_F(l), t.r), r |-> l]
        unswap(s) == Xor4(s.r, P[18]) \o Xor4(s.l, P[17])
    IN  unswap(Loop(LAMBDA t : round(t, Xor4(t.l, P[t.i])),
                    LAMBDA t : t.i <= 16,
                    [i |-> 1, l |-> SubSeq(block, 1, 4), r |-> SubSeq(block, 5, 8)], 16))

\* BlowfishEngine::encrypt
bf_encrypt(P, block) == bf_crypt(block, P)

\* BlowfishEngine::decrypt
bf_decrypt(P, block) == bf_crypt(block, [i \in 1..18 |-> P[19 - i]])

\* ------------------------------------------------------------------------
\* assets/mix.rs: MIX archive reader
\* ------------------------------------------------------------------------
RSA_KEY_BLOCK_SIZE == 80

\* `x as usize` for a u32 used as a length or an offset.  Values of 2^29 and
\* more are represented by 2^29: every file and buffer of the model is
\* shorter, so a comparison against a length is as for the exact value.
u32_as_usize(x) == IF x.hi >= 8192 THEN 8192 * 65536 ELSE x.hi * 65536 + x.lo

\* a reader over a file: its bytes and the stream position
Reader(data) == [data |-> data, pos |-> 0]

read_exact_stay(r, n) ==
    IF n = 0 THEN Ok([bytes |-> <<>>, r |-> r])
    ELSE IF r.pos + n <= Len(r.data)
    THEN Ok([bytes |-> SubSeq(r.data, r.pos + 1, r.pos + n), r |-> r])
    ELSE Err("IoError")

\* Read::read_exact of n bytes: the bytes and the advanced reader, or an
\* IoError when fewer than n bytes are left
read_exact(r, n) ==
    IF n = 0 THEN Ok([bytes |-> <<>>, r |-> r])
    ELSE IF r.pos + n <= Len(r.data)
    THEN Ok([bytes |-> SubSeq(r.data, r.pos + 1, r.pos + n),
             r |-> [r EXCEPT !.pos = r.pos + n]])
    ELSE Err("IoError")

\* Seek::seek(SeekFrom::Start(pos)): a position past the end is accepted
seek(r, pos) == [r EXCEPT !.pos = pos]

MixEntry_from_bytes_unsigned(data) ==
    [crc    |-> u32_as_usize(u32_from_le_bytes(data[1], data[2], data[3], data[4])),
     offset |-> u32_from_le_bytes(data[5], data[6], data[7], data[8]),
     size   |-> u32_from_le_bytes(data[9], data[10], data[11], data[12])]

\* MixEntry::from_bytes, data a 12-byte record
MixEntry_from_bytes(data) ==
    [crc    |-> i32_from_le_bytes(data[1], data[2], data[3], data[4]),
     offset |-> u32_from_le_bytes(data[5], data[6], data[7], data[8]),
     size   |-> u32_from_le_bytes(data[9], data[10], data[11], data[12])]

\* MixHeader::from_bytes
MixHeader_from_bytes(data) ==
    IF Len(data) < 6 THEN Err("InvalidHeader")
    ELSE Ok([file_count   |-> u16_from_le_bytes(data[1], data[2]),
             data_size    |-> u32_from_le_bytes(data[3], data[4], data[5], data[6]),
             is_extended  |-> FALSE,
             has_digest   |-> FALSE,
             is_encrypted |-> FALSE])

\* MixHeader::header_size
MixHeader_header_size(self) == 6 + (self.file_count * 12)

\* MixHeader::total_header_size
MixHeader_total_header_size(self) ==
    MixHeader_header_size(self)
        + (IF self.is_extended
           THEN 4 + (IF self.is_encrypted THEN RSA_KEY_BLOCK_SIZE ELSE 0)
           ELSE 0)

read_entries_reversed(reader, count) ==
    LET n == IF reader.pos + 12 * count <= Len(reader.data) THEN count ELSE 0
    IN  IF n < count THEN Err("IoError")
        ELSE Ok([entries |-> [i \in 1..n |->
                                 MixEntry_from_bytes(SubSeq(reader.data,
                                     reader.pos + 12 * (n - i) + 1,
                                     reader.pos + 12 * (n - i) + 12))],
                 r |-> [reader EXCEPT !.pos = reader.pos + 12 * n]])

\* MixFile::read_entries: count records of 12 bytes, or the first IoError
read_entries(reader, count) ==
    LET push(t, buf) ==
            IF buf.ok
            THEN [t EXCEPT !.r = buf.val.r, !.i = t.i + 1,
                    !.entries = Append(t.entries, MixEntry_from_bytes(buf.val.bytes))]
            ELSE [t EXCEPT !.err = TRUE]
        collect(s) ==
            IF s.err THEN Err("IoError") ELSE Ok([entries |-> s.entries, r |-> s.r])
    IN  collect(Loop(LAMBDA t : push(t, read_exact(t.r, 12)),
                     LAMBDA t : t.i < count /\ ~t.err,
                     [r |-> reader, i |-> 0, entries |-> <<>>, err |-> FALSE], count))

\* read_encrypted with the last two bytes of the first decrypted block lost:
\* the entry data starts with two zero bytes in their place
read_encrypted_lost_tail(reader, has_digest) ==
    LET \* Ok((header, entries, data_start)), or the error of a short index
        built(file_count, data_size, data_start, parsed) ==
            IF parsed.err THEN Err("DecryptionFailed")
            ELSE Ok([header |-> [file_count   |-> file_count,
                                 data_size    |-> data_size,
                                 is_extended  |-> TRUE,
                                 has_digest   |-> has_digest,
                                 is_encrypted |-> TRUE],
                     entries |-> parsed.entries,
                     data_start |-> data_start])
        \* for i in 0..file_count: the entry at entry_data[i * 12 ..]
        parse(file_count, data_size, data_start, entry_data) ==
            Strict(entry_data,
            built(file_count, data_size, data_start,
                  Loop(LAMBDA t :
                           IF t.i * 12 + 12 > Len(entry_data)
                           THEN [t EXCEPT !.err = TRUE]
                           ELSE [t EXCEPT !.i = t.i + 1,
                                   !.entries = Append(t.entries,
                                       MixEntry_from_bytes(
                                           SubSeq(entry_data, t.i * 12 + 1, t.i * 12 + 12)))],
                       LAMBDA t : t.i < file_count /\ ~t.err,
                       [i |-> 0, entries |-> <<>>, err |-> FALSE], file_count)))
        \* decrypt the remaining blocks; data_start is the stream position reached
        decrypt_remaining(bf, header_block, file_count, remaining_encrypted, raw_remaining) ==
            IF ~raw_remaining.ok THEN Err("IoError")
            ELSE parse(file_count,
                       u32_from_le_bytes(header_block[3], header_block[4],
                                         header_block[5], header_block[6]),
                       raw_remaining.val.r.pos,
                       <<0, 0>>
                       \o Loop(LAMBDA t :
                                   [i |-> t.i + 8,
                                    out |-> t.out \o bf_decrypt(bf,
                                        SubSeq(raw_remaining.val.bytes, t.i + 1, t.i + 8))],
                               LAMBDA t : t.i + 8 <= remaining_encrypted,
                               [i |-> 0, out |-> <<>>], remaining_encrypted \div 8).out)
        read_remaining(bf, r, header_block, file_count, remaining_encrypted) ==
            decrypt_remaining(bf, header_block, file_count, remaining_encrypted,
                              read_exact(r, remaining_encrypted))
        \* total_index_size, encrypted_size and remaining_encrypted
        sizes(bf, r, header_block, file_count) ==
            read_remaining(bf, r, header_block, file_count,
                           (((6 + (file_count * 12)) + 7) \div 8) * 8 - 8)
        first_block(bf, r, header_block) ==
            Strict(header_block,
                   sizes(bf, r, header_block,
                         u16_from_le_bytes(header_block[1], header_block[2])))
        read_header(bf, raw_header) ==
            IF ~raw_header.ok THEN Err("IoError")
            ELSE first_block(bf, raw_header.val.r, bf_decrypt(bf, raw_header.val.bytes))
        keyed(bf, r) == Strict(bf, read_header(bf, read_exact(r, 8)))
        with_key(key_block) ==
            IF ~key_block.ok THEN Err("IoError")
            ELSE keyed(bf_set_key(decrypt_mix_key(key_block.val.bytes)), key_block.val.r)
    IN  with_key(read_exact(reader, RSA_KEY_BLOCK_SIZE))

\* MixFile::read_encrypted, the reader standing after the 4 flag bytes.  Each
\* local operator is the rest of the function from one of its `let`s onwards,
\* the values bound so far being its parameters.
read_encrypted(reader, has_digest) ==
    LET \* Ok((header, entries, data_start)), or the error of a short index
        built(file_count, data_size, data_start, parsed) ==
            IF parsed.err THEN Err("DecryptionFailed")
            ELSE Ok([header |-> [file_count   |-> file_count,
                                 data_size    |-> data_size,
                                 is_extended  |-> TRUE,
                                 has_digest   |-> has_digest,
                                 is_encrypted |-> TRUE],
                     entries |-> parsed.entries,
                     data_start |-> data_start])
        \* for i in 0..file_count: the entry at entry_data[i * 12 ..]
        parse(file_count, data_size, data_start, entry_data) ==
            Strict(entry_data,
            built(file_count, data_size, data_start,
                  Loop(LAMBDA t :
                           IF t.i * 12 + 12 > Len(entry_data)
                           THEN [t EXCEPT !.err = TRUE]
                           ELSE [t EXCEPT !.i = t.i + 1,
                                   !.entries = Append(t.entries,
                                       MixEntry_from_bytes(
                                           SubSeq(entry_data, t.i * 12 + 1, t.i * 12 + 12)))],
                       LAMBDA t : t.i < file_count /\ ~t.err,
                       [i |-> 0, entries |-> <<>>, err |-> FALSE], file_count)))
        \* decrypt the remaining blocks; entry_data is header_block[6..8]
        \* followed by them; data_start is the stream position reached
        decrypt_remaining(bf, header_block, file_count, remaining_encrypted, raw_remaining) ==
            IF ~raw_remaining.ok THEN Err("IoError")
            ELSE parse(file_count,
                       u32_from_le_bytes(header_block[3], header_block[4],
                                         header_block[5], header_block[6]),
                       raw_remaining.val.r.pos,
                       SubSeq(header_block, 7, 8)
                       \o Loop(LAMBDA t :
                                   [i |-> t.i + 8,
                                    out |-> t.out \o bf_decrypt(bf,
                                        SubSeq(raw_remaining.val.bytes, t.i + 1, t.i + 8))],
                               LAMBDA t : t.i + 8 <= remaining_encrypted,
                               [i |-> 0, out |-> <<>>], remaining_encrypted \div 8).out)
        read_remaining(bf, r, header_block, file_count, remaining_encrypted) ==
            decrypt_remaining(bf, header_block, file_count, remaining_encrypted,
                              read_exact(r, remaining_encrypted))
        \* total_index_size, encrypted_size and remaining_encrypted
        sizes(bf, r, header_block, file_count) ==
            read_remaining(bf, r, header_block, file_count,
                           (((6 + (file_count * 12)) + 7) \div 8) * 8 - 8)
        first_block(bf, r, header_block) ==
            Strict(header_block,
                   sizes(bf, r, header_block,
                         u16_from_le_bytes(header_block[1], header_block[2])))
        read_header(bf, raw_header) ==
            IF ~raw_header.ok THEN Err("IoError")
            ELSE first_block(bf, raw_header.val.r, bf_decrypt(bf, raw_header.val.bytes))
        keyed(bf, r) == Strict(bf, read_header(bf, read_exact(r, 8)))
        with_key(key_block) ==
            IF ~key_block.ok THEN Err("IoError")
            ELSE keyed(bf_set_key(decrypt_mix_key(key_block.val.bytes)), key_block.val.r)
    IN  with_key(read_exact(reader, RSA_KEY_BLOCK_SIZE))

\* File::open
File_open(path) == IF fs[path].some THEN Ok(Reader(fs[path].val)) ELSE Err("IoError")

\* MixFile::open.  Each local operator is the rest of the function from one of
\* its `let`s onwards.
MixFile_open(path) ==
    LET opened(parsed) ==
            IF ~parsed.ok THEN parsed
            ELSE Ok([path        |-> path,
                     header      |-> parsed.val.header,
                     entries     |-> parsed.val.entries,
                     data_start  |-> parsed.val.data_start,
                     cached_data |-> None])
        indexed(header, entries, is_extended, has_digest) ==
            IF ~entries.ok THEN entries
            ELSE Ok([header |-> [header EXCEPT !.is_extended = is_extended,
                                          !.has_digest = has_digest,
                                          !.is_encrypted = FALSE],
                     entries |-> entries.val.entries,
                     data_start |-> entries.val.r.pos])
        plain_index(reader, header, is_extended, has_digest) ==
            IF ~header.ok THEN header
            ELSE indexed(header.val, read_entries(reader, header.val.file_count),
                         is_extended, has_digest)
        \* extended format, not encrypted: the 6-byte header follows the flags
        extended(has_digest, header_buf) ==
            IF ~header_buf.ok THEN header_buf
            ELSE plain_index(header_buf.val.r, MixHeader_from_bytes(header_buf.val.bytes),
                             TRUE, has_digest)
        \* standard format: the 4 bytes read are the start of the header
        standard(flag_buf, extra) ==
            IF ~extra.ok THEN extra
            ELSE plain_index(extra.val.r, MixHeader_from_bytes(flag_buf \o extra.val.bytes),
                             FALSE, FALSE)
        \* i16::from_le_bytes(..) == 0 iff both bytes are zero
        dispatch(r, flag_buf, first, has_digest, is_encrypted) ==
            opened(IF first = 0
                   THEN IF is_encrypted
                        THEN read_encrypted(r, has_digest)
                        ELSE extended(has_digest, read_exact(r, 6))
                   ELSE standard(flag_buf, read_exact(r, 2)))
        with_flags(r, flag_buf, flags) ==
            dispatch(r, flag_buf, u16_from_le_bytes(flag_buf[1], flag_buf[2]),
                     BitAnd(flags, 1) /= 0, BitAnd(flags, 2) /= 0)
        started(flag_buf) ==
            IF ~flag_buf.ok THEN flag_buf
            ELSE with_flags(flag_buf.val.r, flag_buf.val.bytes,
                            u16_from_le_bytes(flag_buf.val.bytes[3], flag_buf.val.bytes[4]))
        with_file(file) ==
            IF ~file.ok THEN file ELSE started(read_exact(file.val, 4))
    IN  with_file(File_open(path))

\* MixFile::cache: the MixFile afterwards and the value returned
MixFile_cache(self) ==
    LET loaded(data) ==
            IF ~data.ok THEN [self |-> self, ret |-> data]
            ELSE [self |-> [self EXCEPT !.cached_data = Some(data.val.bytes)],
                  ret |-> Ok(<<>>)]
        with_file(file) ==
            IF ~file.ok THEN [self |-> self, ret |-> file]
            ELSE loaded(read_exact(seek(file.val, self.data_start),
                                   u32_as_usize(self.header.data_size)))
    IN  IF self.cached_data.some THEN [self |-> self, ret |-> Ok(<<>>)]
        ELSE with_file(File_open(self.path))

MixFile_uncache_keep(self) == self

\* MixFile::uncache
MixFile_uncache(self) == [self EXCEPT !.cached_data = None]

\* MixFile::is_cached
MixFile_is_cached(self) == self.cached_data.some

binary_search_by_unsigned(entries, crc) ==
    LET above(a, b) == IF (a < 0) = (b < 0) THEN a > b ELSE a < 0
        halve(t, half) ==
            [base |-> IF above(entries[t.base + half + 1].crc, crc)
                      THEN t.base ELSE t.base + half,
             size |-> t.size - half]
        hit(s) == IF entries[s.base + 1].crc = crc THEN Some(s.base + 1) ELSE None
    IN  IF Len(entries) = 0 THEN None
        ELSE hit(Loop(LAMBDA t : halve(t, t.size \div 2),
                      LAMBDA t : t.size > 1,
                      [base |-> 0, size |-> Len(entries)], Len(entries)))

\* slice::binary_search_by(|e| e.crc.cmp(&crc)): Some(index from 1) for Ok(idx),
\* None for Err(_).  The standard library leaves the search order open; the two
\* loops are the ones its releases have shipped.
binary_search_by(entries, crc) ==
    LET halve(t, half) ==
            [base |-> IF entries[t.base + half + 1].crc > crc
                      THEN t.base ELSE t.base + half,
             size |-> t.size - half]
        hit(s) == IF entries[s.base + 1].crc = crc THEN Some(s.base + 1) ELSE None
        bisect(t, mid, e) ==
            IF e < crc
            THEN [t EXCEPT !.left = mid + 1, !.size = t.right - (mid + 1)]
            ELSE IF e > crc
            THEN [t EXCEPT !.right = mid, !.size = mid - t.left]
            ELSE [t EXCEPT !.found = Some(mid + 1)]
        probe(t, mid) == bisect(t, mid, entries[mid + 1].crc)
    IN  IF slice_search = "halving"
        THEN IF Len(entries) = 0 THEN None
             ELSE hit(Loop(LAMBDA t : halve(t, t.size \div 2),
                           LAMBDA t : t.size > 1,
                           [base |-> 0, size |-> Len(entries)], Len(entries)))
        ELSE Loop(LAMBDA t : probe(t, t.left + (t.size \div 2)),
                  LAMBDA t : t.left < t.right /\ ~t.found.some,
                  [left |-> 0, right |-> Len(entries), size |-> Len(entries),
                   found |-> None], Len(entries)).found

\* MixFile::find_by_crc
MixFile_find_by_crc(self, crc) ==
    LET entry(idx) == IF idx.some THEN Some(self.entries[idx.val]) ELSE None
    IN  entry(binary_search_by(self.entries, crc))

MixFile_find_nofold(self, filename) ==
    MixFile_find_by_crc(self, u32_as_i32(westwood_crc(filename)))

\* MixFile::find
MixFile_find(self, filename) ==
    MixFile_find_by_crc(self, u32_as_i32(westwood_crc_filename(filename)))

\* MixFile::contains
MixFile_contains(self, filename) == MixFile_find(self, filename).some

\* MixFile::read_entry
MixFile_read_entry(self, entry) ==
    LET slice(data, start, end) ==
            IF end > Len(data) THEN Err("InvalidFormat")
            ELSE Ok(SubSeq(data, start + 1, end))
        loaded(data) == IF ~data.ok THEN data ELSE Ok(data.val.bytes)
        with_file(file) ==
            IF ~file.ok THEN file
            ELSE loaded(read_exact(seek(file.val,
                                        self.data_start + u32_as_usize(entry.offset)),
                                   u32_as_usize(entry.size)))
    IN  IF self.cached_data.some
        THEN slice(self.cached_data.val, u32_as_usize(entry.offset),
                   u32_as_usize(entry.offset) + u32_as_usize(entry.size))
        ELSE with_file(File_open(self.path))

\* MixFile::read
MixFile_read(self, filename) ==
    LET read_found(entry) ==
            IF ~entry.some THEN Err("FileNotFound")
            ELSE MixFile_read_entry(self, entry.val)
    IN  read_found(MixFile_find(self, filename))

\* MixFile::get_ptr
MixFile_get_ptr(self, filename) ==
    LET slice(data, start, end) ==
            IF end <= Len(data) THEN Some(SubSeq(data, start + 1, end)) ELSE None
        cached(entry) ==
            IF ~self.cached_data.some THEN None
            ELSE slice(self.cached_data.val, u32_as_usize(entry.offset),
                       u32_as_usize(entry.offset) + u32_as_usize(entry.size))
        found(entry) == IF ~entry.some THEN None ELSE cached(entry.val)
    IN  found(MixFile_find(self, filename))

\* Iterator::position over mixes: the first index (from 1) whose archive
\* satisfies P, or 0
RECURSIVE position(_, _, _)
position(P(_), ms, i) ==
    IF i > Len(ms) THEN 0 ELSE IF P(ms[i]) THEN i ELSE position(P, ms, i + 1)

\* Vec::remove(idx), idx from 1
remove(ms, idx) == SubSeq(ms, 1, idx - 1) \o SubSeq(ms, idx + 1, Len(ms))

\* MixManager::register: mixes afterwards and the value returned
MixManager_register(ms, path) ==
    LET push(mix) ==
            IF ~mix.ok THEN [mixes |-> ms, ret |-> mix]
            ELSE [mixes |-> Append(ms, mix.val), ret |-> Ok(<<>>)]
    IN  push(MixFile_open(path))

\* MixManager::register_and_cache
MixManager_register_and_cache(ms, path) ==
    LET push(cached) ==
            IF ~cached.ret.ok THEN [mixes |-> ms, ret |-> cached.ret]
            ELSE [mixes |-> Append(ms, cached.self), ret |-> Ok(<<>>)]
        load(mix) ==
            IF ~mix.ok THEN [mixes |-> ms, ret |-> mix]
            ELSE push(MixFile_cache(mix.val))
    IN  load(MixFile_open(path))

MixManager_unregister_last(ms, path) ==
    LET take(idx) ==
            IF idx /= 0 THEN [mixes |-> remove(ms, Len(ms) + 1 - idx), ret |-> TRUE]
            ELSE [mixes |-> ms, ret |-> FALSE]
    IN  take(position(LAMBDA m : m.path = path,
                      [i \in 1..Len(ms) |-> ms[Len(ms) + 1 - i]], 1))

\* MixManager::unregister
MixManager_unregister(ms, path) ==
    LET take(idx) ==
            IF idx /= 0 THEN [mixes |-> remove(ms, idx), ret |-> TRUE]
            ELSE [mixes |-> ms, ret |-> FALSE]
    IN  take(position(LAMBDA m : m.path = path, ms, 1))

\* MixManager::find: Some((mix, entry)), the archive given by its place in mixes
MixManager_find(ms, filename) ==
    LET pair(crc, idx) ==
            IF idx /= 0
            THEN Some([mix |-> idx, entry |-> MixFile_find_by_crc(ms[idx], crc).val])
            ELSE None
        search(crc) ==
            pair(crc, position(LAMBDA m : MixFile_find_by_crc(m, crc).some, ms, 1))
    IN  search(u32_as_i32(westwood_crc_filename(filename)))

\* MixManager::read
MixManager_read(ms, filename) ==
    LET read_found(found) ==
            IF found.some THEN MixFile_read_entry(ms[found.val.mix], found.val.entry)
            ELSE Err("FileNotFound")
    IN  read_found(MixManager_find(ms, filename))

\* MixManager::get_ptr: the pointer of the first archive that has the key and
\* gives one
MixManager_get_ptr(ms, filename) ==
    LET ptr(idx) == IF idx /= 0 THEN MixFile_get_ptr(ms[idx], filename) ELSE None
        search(crc) ==
            ptr(position(LAMBDA m : /\ MixFile_find_by_crc(m, crc).some
                                    /\ MixFile_get_ptr(m, filename).some, ms, 1))
    IN  search(u32_as_i32(westwood_crc_filename(filename)))

\* MixManager::cache
MixManager_cache(ms, path) ==
    LET store(idx, cached) ==
            IF ~cached.ret.ok THEN [mixes |-> ms, ret |-> cached.ret]
            ELSE [mixes |-> [ms EXCEPT ![idx] = cached.self], ret |-> Ok(TRUE)]
        at(idx) ==
            IF idx = 0 THEN [mixes |-> ms, ret |-> Ok(FALSE)]
            ELSE store(idx, MixFile_cache(ms[idx]))
    IN  at(position(LAMBDA m : m.path = path, ms, 1))

\* MixManager::uncache
MixManager_uncache(ms, path) ==
    LET at(idx) ==
            IF idx = 0 THEN [mixes |-> ms, ret |-> FALSE]
            ELSE [mixes |-> [ms EXCEPT ![idx] = MixFile_uncache(ms[idx])], ret |-> TRUE]
    IN  at(position(LAMBDA m : m.path = path, ms, 1))

\* ------------------------------------------------------------------------
\* Inputs
\* ------------------------------------------------------------------------
RECURSIVE SeqsUpTo(_, _)
SeqsUpTo(S, n) ==
    IF n = 0 THEN {<<>>}
    ELSE LET R == SeqsUpTo(S, n - 1)
         IN  R \cup {Append(r, x) : r \in {q \in R : Len(q) = n - 1}, x \in S}

\* 'A', 'z', '.', and a non-ASCII byte
CrcBytes == {65, 122, 46, 255}

\* bytes of the codec's inputs
LcwBytes == {65, 66}

\* the bytes 0, 1, 2, ... (mod 256): no three of them repeat within 256 bytes
Counter(k) == [i \in 1..k |-> (i - 1) % 256]

\* a pattern, gap filler bytes, and the pattern again: a repeat at distance
\* Len(pat) + gap
Repeat(pat, gap) == pat \o Counter(gap) \o pat

LcwLongInputs ==
    {Repeat(pat, gap) : pat \in {<<9, 7, 5>>, <<9, 7, 5, 3>>}, gap \in {252, 253}}

\* inputs without any repeat, so that they are emitted as literal runs only:
\* of one full run, of two full runs and a byte, and of a few bytes more
LcwLiteralInputs == {Counter(n) : n \in {63, 127, 130}}

LcwInputs == SeqsUpTo(LcwBytes, MaxLcwLen) \cup LcwLongInputs \cup LcwLiteralInputs

\* bytes of the command streams: the end command and offset byte 0x00, the
\* back-reference command and offset byte 0x01, the back-reference command
\* 0x10, the short literal 0x80 and the long literal 0xC0
StreamBytes == {0, 1, 16, 128, 192}

\* the streams of the codec's unit tests, and streams with literals of 2 and
\* 4 bytes, back-references at offsets 2 and 4, an overlapping one of 10
\* bytes, a long literal of 3 bytes, and bytes after the end command
LcwVectors ==
    {<<131, 72, 101, 108, 108, 0>>,
     <<131, 65, 66, 67, 68, 16, 4, 0>>,
     <<128, 65, 112, 1, 0>>,
     <<129, 65, 66, 32, 2, 0>>,
     <<192, 2, 7, 8, 9, 128, 5, 0, 128, 6>>,
     <<131, 65, 66, 67, 68, 16, 5, 0>>,
     <<131, 72>>,
     <<128, 65, 112, 1>>}

LcwStreams == SeqsUpTo(StreamBytes, MaxStreamLen) \cup LcwVectors

IsAscii(s) == \A i \in 1..Len(s) : s[i] < 128

Spellings == {"orig", "upper", "lower"}

Spell(v, name) ==
    IF v = "upper" THEN to_ascii_uppercase(name)
    ELSE IF v = "lower" THEN to_ascii_lowercase(name)
    ELSE name

\* ---- archive files, laid out as the module documentation of mix.rs says ----

\* u32::to_le_bytes
u32_to_le_bytes(x) == <<x.lo % 256, x.lo \div 256, x.hi % 256, x.hi \div 256>>

\* "A", "B" and "AAAAA", whose key has the top bit set
StoredNames == {<<65>>, <<66>>, <<65, 65, 65, 65, 65>>}

\* the stored names in both letter cases, and a name no archive stores
QueryNames ==
    StoredNames \cup {to_ascii_lowercase(n) : n \in StoredNames} \cup {<<122>>}

\* the payload of an archive of n entries: 2 bytes per entry, all distinct
Payload(n, seed) == [i \in 1..(2 * n) |-> seed + i]

\* a 20-byte trailing digest
Digest == [i \in 1..20 |-> 200 + i]

\* FileHeader and SubBlock array for the names in keys (in that order).  Entry
\* i holds bytes 2i-2 and 2i-1 of the data section; under "overrun" the last
\* entry is one byte longer than the data section allows, under "far" its
\* offset is 0xDDCCBBAA.
IndexBytes(keys, layout) ==
    LET n == Len(keys)
        SubBlock(i) ==
            u32_to_le_bytes(westwood_crc_filename(keys[i]))
            \o u32_to_le_bytes(IF layout = "far" /\ i = n
                               THEN [hi |-> 56780, lo |-> 48042]
                               ELSE [hi |-> 0, lo |-> 2 * (i - 1)])
            \o u32_to_le_bytes([hi |-> 0,
                                lo |-> IF layout = "overrun" /\ i = n THEN 3 ELSE 2])
    IN  Loop(LAMBDA t : [i |-> t.i + 1, out |-> t.out \o SubBlock(t.i)],
             LAMBDA t : t.i <= n,
             [i |-> 1,
              out |-> <<n % 256, n \div 256>> \o u32_to_le_bytes([hi |-> 0, lo |-> 2 * n])],
             n).out

\* the key block whose two halves decrypt to 1 and to 0
KeyBlock == [i \in 1..RSA_KEY_BLOCK_SIZE |-> IF i = RSA_CRYPT_BLOCK_SIZE THEN 1 ELSE 0]

\* the index, zero-padded to 8-byte blocks and encrypted block by block under key
EncryptIndex(index, key) ==
    LET blocks(padded, bf) ==
            Loop(LAMBDA t : [i |-> t.i + 8,
                             out |-> t.out \o bf_encrypt(bf, SubSeq(padded, t.i + 1, t.i + 8))],
                 LAMBDA t : t.i < Len(padded),
                 [i |-> 0, out |-> <<>>], Len(padded) \div 8).out
        keyed(padded, bf) == Strict(bf, blocks(padded, bf))
    IN  keyed(index \o [i \in 1..((8 - (Len(index) % 8)) % 8) |-> 0], bf_set_key(key))

\* flag words of the extended format written by the model: bit 0 digest,
\* bit 1 encrypted, bit 2 unassigned
FlagWords == 0..4

\* a whole archive file.  fmt is "plain", or "ext" with the flag word flags;
\* cut is the number of bytes missing at the end of the file.
MixImage(fmt, flags, keys, layout, seed, cut) ==
    LET has_digest   == fmt = "ext" /\ BitAnd(flags, 1) /= 0
        is_encrypted == fmt = "ext" /\ BitAnd(flags, 2) /= 0
        head(index) ==
            IF fmt = "plain" THEN index
            ELSE <<0, 0, flags, 0>>
                 \o (IF is_encrypted
                     THEN KeyBlock \o EncryptIndex(index, decrypt_mix_key(KeyBlock))
                     ELSE index)
        truncated(whole) == SubSeq(whole, 1, Len(whole) - Min(cut, Len(whole)))
    IN  truncated(head(IndexBytes(keys, layout))
                  \o Payload(Len(keys), seed)
                  \o (IF has_digest THEN Digest ELSE <<>>))

\* a format: "plain", or "ext" with a flag word
Formats == {<<"plain", 0>>} \cup {<<"ext", f>> : f \in FlagWords}

\* the entry tables written: every order of up to MaxEntries stored names,
\* sorted or not, repeated keys included
KeyLists == SeqsUpTo(StoredNames, MaxEntries)

\* files an archive is opened from: well-formed archives of every format and
\* table; archives whose last entry leaves the data section; archives cut
\* short in the payload, the index, the header and the key block; files too
\* short to hold the 4 flag bytes
MixFiles ==
    {MixImage(f[1], f[2], keys, "packed", 10, 0) : f \in Formats, keys \in KeyLists}
    \cup {MixImage(f[1], f[2], keys, layout, 10, 0) :
              f \in {<<"plain", 0>>, <<"ext", 1>>, <<"ext", 3>>},
              keys \in KeyLists \ {<<>>}, layout \in {"overrun", "far"}}
    \cup {MixImage(f[1], f[2], <<<<65>>, <<66>>>>, "packed", 10, cut) :
              f \in {<<"plain", 0>>, <<"ext", 0>>, <<"ext", 2>>},
              cut \in {1, 5, 30, 100}}
    \cup {<<>>, <<1, 0, 0>>}

\* the path the archive of the single-archive machine is opened from
MixPath == "test.mix"

\* keys looked up directly: those of the stored names, 0, and that of "Z"
CrcKeys ==
    {u32_as_i32(westwood_crc_filename(n)) : n \in StoredNames \cup {<<122>>}} \cup {0}

\* the files of the manager machine: two sorted archives sharing the key of
\* "B", an unsorted one, one whose payload is cut short, and a missing file
MgrFiles ==
    [p \in {"a.mix", "b.mix", "c.mix", "t.mix", "none.mix"} |->
        CASE p = "a.mix" -> Some(MixImage("plain", 0, <<<<65>>, <<66>>>>, "packed", 10, 0))
          [] p = "b.mix" -> Some(MixImage("ext", 1, <<<<65, 65, 65, 65, 65>>, <<66>>>>,
                                          "packed", 30, 0))
          [] p = "c.mix" -> Some(MixImage("plain", 0, <<<<66>>, <<65>>>>, "packed", 50, 0))
          [] p = "t.mix" -> Some(MixImage("plain", 0, <<<<65>>>>, "packed", 70, 1))
          [] OTHER -> None]

\* names the manager is asked for
MgrNames == {<<97>>, <<66>>, <<97, 97, 97, 97, 97>>, <<122>>}

\* ------------------------------------------------------------------------
\* Initial values of each component
\* ------------------------------------------------------------------------
CrcIdle ==
    /\ crc_fed = 0
    /\ wc = WestwoodCrc_new
    /\ crc_out = None
    /\ name_hash = [v \in Spellings |-> None]
    /\ crc_one = None

LcwIdle ==
    /\ lcw_comp = None
    /\ lcw_dec = None
    /\ lcw_cap = 0
    /\ lcw_raw = None
    /\ lcw_match = None

RsaIdle == rsa_ret = None

MixIdle ==
    /\ mf = None
    /\ mf_ret = [op |-> "none"]
    /\ mf_last = "none"

MgrIdle ==
    /\ mixes = <<>>
    /\ mgr_ret = [op |-> "none"]
    /\ mgr_removed = FALSE

\* no file on disk
NoFiles ==
    /\ fs = [p \in {} |-> None]
    /\ slice_search = "halving"

\* ------------------------------------------------------------------------
\* Hashing: state machine
\* ------------------------------------------------------------------------
CrcInit ==
    /\ crc_data \in SeqsUpTo(CrcBytes, MaxCrcLen)
    /\ CrcIdle
    /\ lcw_source = <<>>
    /\ LcwIdle
    /\ RsaIdle
    /\ NoFiles /\ MixIdle /\ MgrIdle

Hashing == crc_one.some \/ \E v \in Spellings : name_hash[v].some

\* WestwoodCrc::update(chunk), chunk the next k bytes of crc_data
CrcUpdate(k) ==
    /\ ~Hashing
    /\ crc_fed + k <= Len(crc_data)
    /\ wc' = WestwoodCrc_update(wc, SubSeq(crc_data, crc_fed + 1, crc_fed + k))
    /\ crc_fed' = crc_fed + k
    /\ UNCHANGED <<crc_data, crc_out, name_hash, crc_one>>
    /\ UNCHANGED <<lcw_vars, rsa_vars, mix_vars, mgr_vars>>

\* WestwoodCrc::finalize()
CrcFinalize ==
    /\ ~Hashing
    /\ crc_out' = Some([at |-> crc_fed, value |-> WestwoodCrc_finalize(wc)])
    /\ UNCHANGED <<crc_data, crc_fed, wc, name_hash, crc_one>>
    /\ UNCHANGED <<lcw_vars, rsa_vars, mix_vars, mgr_vars>>

\* westwood_crc_filename(spelling v of the name crc_data)
CrcFilename(v) ==
    /\ IsAscii(crc_data)
    /\ crc_fed = 0 /\ ~crc_out.some
    /\ name_hash' = [name_hash EXCEPT ![v] = Some(westwood_crc_filename(Spell(v, crc_data)))]
    /\ UNCHANGED <<crc_data, crc_fed, wc, crc_out, crc_one>>
    /\ UNCHANGED <<lcw_vars, rsa_vars, mix_vars, mgr_vars>>

\* westwood_crc(crc_data)
CrcOneShot ==
    /\ ~crc_one.some
    /\ crc_fed = 0 /\ ~crc_out.some
    /\ crc_one' = Some(westwood_crc(crc_data))
    /\ UNCHANGED <<crc_data, crc_fed, wc, crc_out, name_hash>>
    /\ UNCHANGED <<lcw_vars, rsa_vars, mix_vars, mgr_vars>>

CrcNext ==
    \/ \E k \in 0..MaxCrcLen : CrcUpdate(k)
    \/ CrcOneShot
    \/ CrcFinalize
    \/ \E v \in Spellings : CrcFilename(v)

SpecCrc == CrcInit /\ [][CrcNext]_vars

\* ------------------------------------------------------------------------
\* Codec: state machine
\* ------------------------------------------------------------------------
LcwInit ==
    /\ lcw_source \in LcwInputs
    /\ LcwIdle
    /\ RsaIdle
    /\ crc_data = <<>>
    /\ CrcIdle
    /\ NoFiles /\ MixIdle /\ MgrIdle

\* lcw_compress(lcw_source, dest) with a dest of dest_len bytes
LcwCompress(dest_len) ==
    /\ ~lcw_comp.some /\ ~lcw_match.some
    /\ lcw_comp' = Some(lcw_compress(lcw_source, dest_len))
    /\ lcw_cap' = dest_len
    /\ UNCHANGED <<lcw_source, lcw_dec, lcw_raw, lcw_match>>
    /\ UNCHANGED <<crc_vars, rsa_vars, mix_vars, mgr_vars>>

\* lcw_decompress(compressed bytes, dest) with a dest of dest_len bytes
\* that the caller filled with the byte fill
LcwDecompress(dest_len, fill) ==
    /\ lcw_comp.some /\ lcw_comp.val.ok
    /\ ~lcw_dec.some
    /\ lcw_dec' = Some([dest_len |-> dest_len,
                        res |-> lcw_decompress(lcw_comp.val.val,
                                               [i \in 1..dest_len |-> fill])])
    /\ UNCHANGED <<lcw_source, lcw_comp, lcw_cap, lcw_raw, lcw_match>>
    /\ UNCHANGED <<crc_vars, rsa_vars, mix_vars, mgr_vars>>

\* buffer sizes tried for an input of n bytes: the small ones, n and n + 1,
\* and the size lcw_max_compressed_size recommends
BufferSizes(n) ==
    (0..Min(n, MaxLcwLen + 2)) \cup {n, n + 1, lcw_max_compressed_size(n)}

\* find_match(lcw_source, pos), as lcw_compress calls it: pos < source.len()
LcwFindMatch(pos) ==
    /\ ~lcw_comp.some /\ ~lcw_match.some
    /\ lcw_match' = Some([pos |-> pos, res |-> find_match(lcw_source, pos)])
    /\ UNCHANGED <<lcw_source, lcw_comp, lcw_dec, lcw_cap, lcw_raw>>
    /\ UNCHANGED <<crc_vars, rsa_vars, mix_vars, mgr_vars>>

LcwNext ==
    \/ \E pos \in 0..(Len(lcw_source) - 1) : LcwFindMatch(pos)
    \/ \E dest_len \in BufferSizes(Len(lcw_source)) : LcwCompress(dest_len)
    \/ \E dest_len \in BufferSizes(Len(lcw_source)), fill \in {0, 255} :
           LcwDecompress(dest_len, fill)

SpecLcw == LcwInit /\ [][LcwNext]_vars

\* --- lcw_decompress on command streams -----------------------------------
LcwDecodeInit ==
    /\ lcw_source = <<>>
    /\ LcwIdle
    /\ RsaIdle
    /\ crc_data = <<>>
    /\ CrcIdle
    /\ NoFiles /\ MixIdle /\ MgrIdle

\* lcw_decompress(source, dest) with a dest of dest_len bytes that the caller
\* filled with 0xFF
LcwDecode(source, dest_len) ==
    /\ ~lcw_raw.some
    /\ lcw_raw' = Some([source |-> source, dest_len |-> dest_len,
                        res |-> lcw_decompress(source, [i \in 1..dest_len |-> 255])])
    /\ UNCHANGED <<lcw_source, lcw_comp, lcw_dec, lcw_cap, lcw_match>>
    /\ UNCHANGED <<crc_vars, rsa_vars, mix_vars, mgr_vars>>

LcwDecodeNext ==
    \E source \in LcwStreams, dest_len \in (0..MaxStreamLen) \cup {MaxRoom} :
        LcwDecode(source, dest_len)

SpecLcwDecode == LcwDecodeInit /\ [][LcwDecodeNext]_vars

\* ------------------------------------------------------------------------
\* Key recovery: state machine
\* ------------------------------------------------------------------------

\* operands of BigUint::mul: one and two digits, digits of 2^32 - 1 included
MulOperands ==
    LET digits == {U32Zero, [hi |-> 0, lo |-> 12345], [hi |-> 1, lo |-> 2354],
                   [hi |-> 65535, lo |-> 65535]}
        top    == {[hi |-> 0, lo |-> 1], [hi |-> 65535, lo |-> 65535]}
    IN  {<<d>> : d \in digits} \cup {<<d, t>> : d \in digits, t \in top}

\* operand triples of mod_pow: the small integers and the two test vectors
ModPowOperands ==
    ((0..MaxBase) \X (0..MaxExp) \X (0..MaxModulus)) \cup {<<2, 10, 1000>>}

\* 80-byte key blocks whose halves are the ciphertexts 0 and 1
KeyBlocks ==
    {[i \in 1..RSA_KEY_BLOCK_SIZE |->
         IF i = RSA_CRYPT_BLOCK_SIZE THEN c[1]
         ELSE IF i = 2 * RSA_CRYPT_BLOCK_SIZE THEN c[2] ELSE 0] : c \in {0, 1} \X {0, 1}}

RsaInit ==
    /\ RsaIdle
    /\ lcw_source = <<>>
    /\ LcwIdle
    /\ crc_data = <<>>
    /\ CrcIdle
    /\ NoFiles /\ MixIdle /\ MgrIdle

\* WESTWOOD_PUBLIC_KEY.plain_block_size() and crypt_block_size()
RsaBlockSizes ==
    /\ ~rsa_ret.some
    /\ rsa_ret' = Some([op |-> "block_sizes", modulus_len |-> Len(WESTWOOD_MODULUS),
                         plain |-> plain_block_size, crypt |-> crypt_block_size])
    /\ UNCHANGED <<crc_vars, lcw_vars, mix_vars, mgr_vars>>

\* a.mul(&b)
RsaMul(a, b) ==
    /\ ~rsa_ret.some
    /\ rsa_ret' = Some([op |-> "mul", a |-> a, b |-> b, res |-> BigUint_mul(a, b)])
    /\ UNCHANGED <<crc_vars, lcw_vars, mix_vars, mgr_vars>>

\* mod_pow(&BigUint::from_u32(base), &BigUint::from_u32(exp), &BigUint::from_u32(modulus))
RsaModPow(base, exp, modulus) ==
    /\ ~rsa_ret.some
    /\ rsa_ret' = Some([op |-> "mod_pow", base |-> base, exp |-> exp, modulus |-> modulus,
                         res |-> mod_pow(BigUint_from_u32([hi |-> 0, lo |-> base]),
                                         BigUint_from_u32([hi |-> 0, lo |-> exp]),
                                         BigUint_from_u32([hi |-> 0, lo |-> modulus]))])
    /\ UNCHANGED <<crc_vars, lcw_vars, mix_vars, mgr_vars>>

\* decrypt_mix_key(block)
RsaDecryptMixKey(block) ==
    /\ ~rsa_ret.some
    /\ rsa_ret' = Some([op |-> "decrypt_mix_key", block |-> block,
                         res |-> decrypt_mix_key(block)])
    /\ UNCHANGED <<crc_vars, lcw_vars, mix_vars, mgr_vars>>

RsaNext ==
    \/ RsaBlockSizes
    \/ \E a \in MulOperands, b \in MulOperands : RsaMul(a, b)
    \/ \E t \in ModPowOperands : RsaModPow(t[1], t[2], t[3])
    \/ \E block \in KeyBlocks : RsaDecryptMixKey(block)

SpecRsa == RsaInit /\ [][RsaNext]_vars

\* ------------------------------------------------------------------------
\* One archive: state machine
\* ------------------------------------------------------------------------
MixInit ==
    /\ fs \in {[p \in {MixPath} |-> f] : f \in {None} \cup {Some(img) : img \in MixFiles}}
    /\ slice_search \in {"halving", "bisect"}
    /\ MixIdle
    /\ MgrIdle
    /\ crc_data = <<>> /\ CrcIdle
    /\ lcw_source = <<>> /\ LcwIdle
    /\ RsaIdle

\* MixFile::open(MixPath)
MixOpen ==
    /\ ~mf.some
    /\ LET returned(r) ==
               /\ mf' = IF r.ok THEN Some(r.val) ELSE None
               /\ mf_ret' = [op |-> "open", res |-> IF r.ok THEN Ok(<<>>) ELSE r]
       IN  returned(MixFile_open(MixPath))
    /\ UNCHANGED <<fs, slice_search, mf_last>>
    /\ UNCHANGED <<crc_vars, lcw_vars, rsa_vars, mgr_vars>>

\* mf.cache()
MixCache ==
    /\ mf.some
    /\ LET returned(c) ==
               /\ mf' = Some(c.self)
               /\ mf_ret' = [op |-> "cache", res |-> c.ret,
                             was_cached |-> MixFile_is_cached(mf.val)]
               /\ mf_last' = IF c.ret.ok THEN "cache" ELSE mf_last
       IN  returned(MixFile_cache(mf.val))
    /\ UNCHANGED <<fs, slice_search>>
    /\ UNCHANGED <<crc_vars, lcw_vars, rsa_vars, mgr_vars>>

\* mf.uncache()
MixUncache ==
    /\ mf.some
    /\ mf' = Some(MixFile_uncache(mf.val))
    /\ mf_ret' = [op |-> "uncache", was_cached |-> MixFile_is_cached(mf.val)]
    /\ mf_last' = "uncache"
    /\ UNCHANGED <<fs, slice_search>>
    /\ UNCHANGED <<crc_vars, lcw_vars, rsa_vars, mgr_vars>>

\* mf.find_by_crc(crc)
MixFindByCrc(crc) ==
    /\ mf.some
    /\ mf_ret' = [op |-> "find_by_crc", crc |-> crc, res |-> MixFile_find_by_crc(mf.val, crc)]
    /\ UNCHANGED <<fs, slice_search, mf, mf_last>>
    /\ UNCHANGED <<crc_vars, lcw_vars, rsa_vars, mgr_vars>>

\* mf.find(filename)
MixFind(filename) ==
    /\ mf.some
    /\ mf_ret' = [op |-> "find", name |-> filename, res |-> MixFile_find(mf.val, filename)]
    /\ UNCHANGED <<fs, slice_search, mf, mf_last>>
    /\ UNCHANGED <<crc_vars, lcw_vars, rsa_vars, mgr_vars>>

\* mf.read(filename)
MixRead(filename) ==
    /\ mf.some
    /\ mf_ret' = [op |-> "read", name |-> filename, res |-> MixFile_read(mf.val, filename)]
    /\ UNCHANGED <<fs, slice_search, mf, mf_last>>
    /\ UNCHANGED <<crc_vars, lcw_vars, rsa_vars, mgr_vars>>

\* mf.read_entry(&mf.entries[i])
MixReadEntry(i) ==
    /\ mf.some
    /\ i <= Len(mf.val.entries)
    /\ mf_ret' = [op |-> "read_entry", entry |-> mf.val.entries[i],
                  res |-> MixFile_read_entry(mf.val, mf.val.entries[i])]
    /\ UNCHANGED <<fs, slice_search, mf, mf_last>>
    /\ UNCHANGED <<crc_vars, lcw_vars, rsa_vars, mgr_vars>>

MixNext ==
    \/ MixOpen
    \/ MixCache
    \/ MixUncache
    \/ \E crc \in CrcKeys : MixFindByCrc(crc)
    \/ \E filename \in QueryNames : MixFind(filename)
    \/ \E filename \in QueryNames : MixRead(filename)
    \/ \E i \in 1..MaxEntries : MixReadEntry(i)

SpecMixFile == MixInit /\ [][MixNext]_vars

\* --- the parsers of the header and of an entry record ----------------------

\* bytes of the slices handed to MixHeader::from_bytes
HeaderBytes == {0, 10, 255}

\* 4-byte fields of the records handed to MixEntry::from_bytes
EntryFields ==
    {<<18, 52, 86, 120>>, <<170, 187, 204, 221>>, <<16, 32, 0, 0>>, <<0, 0, 0, 128>>,
     <<255, 255, 255, 255>>, <<0, 0, 0, 0>>}

MixParseInit ==
    /\ NoFiles /\ MixIdle /\ MgrIdle
    /\ crc_data = <<>> /\ CrcIdle
    /\ lcw_source = <<>> /\ LcwIdle
    /\ RsaIdle

\* MixHeader::from_bytes(data), and header_size() of the header it returns
MixHeaderFromBytes(data) ==
    /\ mf_ret.op = "none"
    /\ LET returned(h) ==
               mf_ret' = [op |-> "header_from_bytes", data |-> data, res |-> h,
                          header_size |-> IF h.ok THEN Some(MixHeader_header_size(h.val))
                                          ELSE None]
       IN  returned(MixHeader_from_bytes(data))
    /\ UNCHANGED <<fs, slice_search, mf, mf_last>>
    /\ UNCHANGED <<crc_vars, lcw_vars, rsa_vars, mgr_vars>>

\* MixEntry::from_bytes(data)
MixEntryFromBytes(data) ==
    /\ mf_ret.op = "none"
    /\ mf_ret' = [op |-> "entry_from_bytes", data |-> data, res |-> MixEntry_from_bytes(data)]
    /\ UNCHANGED <<fs, slice_search, mf, mf_last>>
    /\ UNCHANGED <<crc_vars, lcw_vars, rsa_vars, mgr_vars>>

MixParseNext ==
    \/ \E data \in SeqsUpTo(HeaderBytes, MaxHeaderLen) : MixHeaderFromBytes(data)
    \/ \E k \in EntryFields, o \in EntryFields, z \in EntryFields :
           MixEntryFromBytes(k \o o \o z)

SpecMixParse == MixParseInit /\ [][MixParseNext]_vars

\* ------------------------------------------------------------------------
\* Archive set: state machine
\* ------------------------------------------------------------------------
MgrInit ==
    /\ fs = MgrFiles
    /\ slice_search \in {"halving", "bisect"}
    /\ MgrIdle
    /\ MixIdle
    /\ crc_data = <<>> /\ CrcIdle
    /\ lcw_source = <<>> /\ LcwIdle
    /\ RsaIdle

\* manager.register(path)
MgrRegister(path) ==
    /\ Len(mixes) < MaxMixes
    /\ LET returned(r) ==
               /\ mixes' = r.mixes
               /\ mgr_ret' = [op |-> "register", path |-> path, res |-> r.ret]
       IN  returned(MixManager_register(mixes, path))
    /\ UNCHANGED <<mgr_removed, mix_vars, crc_vars, lcw_vars, rsa_vars>>

\* manager.register_and_cache(path)
MgrRegisterAndCache(path) ==
    /\ Len(mixes) < MaxMixes
    /\ LET returned(r) ==
               /\ mixes' = r.mixes
               /\ mgr_ret' = [op |-> "register_and_cache", path |-> path, res |-> r.ret]
       IN  returned(MixManager_register_and_cache(mixes, path))
    /\ UNCHANGED <<mgr_removed, mix_vars, crc_vars, lcw_vars, rsa_vars>>

\* manager.unregister(path)
MgrUnregister(path) ==
    /\ LET returned(r) ==
               /\ mixes' = r.mixes
               /\ mgr_ret' = [op |-> "unregister", path |-> path, res |-> r.ret]
               /\ mgr_removed' = (mgr_removed \/ r.ret)
       IN  returned(MixManager_unregister(mixes, path))
    /\ UNCHANGED <<mix_vars, crc_vars, lcw_vars, rsa_vars>>

\* manager.find(filename)
MgrFind(filename) ==
    /\ mgr_ret' = [op |-> "find", name |-> filename, res |-> MixManager_find(mixes, filename)]
    /\ UNCHANGED <<mixes, mgr_removed, mix_vars, crc_vars, lcw_vars, rsa_vars>>

\* manager.read(filename)
MgrRead(filename) ==
    /\ mgr_ret' = [op |-> "read", name |-> filename, res |-> MixManager_read(mixes, filename)]
    /\ UNCHANGED <<mixes, mgr_removed, mix_vars, crc_vars, lcw_vars, rsa_vars>>

\* manager.get_ptr(filename)
MgrGetPtr(filename) ==
    /\ mgr_ret' = [op |-> "get_ptr", name |-> filename,
                   res |-> MixManager_get_ptr(mixes, filename)]
    /\ UNCHANGED <<mixes, mgr_removed, mix_vars, crc_vars, lcw_vars, rsa_vars>>

\* manager.cache(path)
MgrCache(path) ==
    /\ LET returned(r) ==
               /\ mixes' = r.mixes
               /\ mgr_ret' = [op |-> "cache", path |-> path, res |-> r.ret]
       IN  returned(MixManager_cache(mixes, path))
    /\ UNCHANGED <<mgr_removed, mix_vars, crc_vars, lcw_vars, rsa_vars>>

\* manager.uncache(path)
MgrUncache(path) ==
    /\ LET returned(r) ==
               /\ mixes' = r.mixes
               /\ mgr_ret' = [op |-> "uncache", path |-> path, res |-> r.ret]
       IN  returned(MixManager_uncache(mixes, path))
    /\ UNCHANGED <<mgr_removed, mix_vars, crc_vars, lcw_vars, rsa_vars>>

MgrNext ==
    \/ \E path \in DOMAIN fs : MgrRegister(path)
    \/ \E path \in DOMAIN fs : MgrRegisterAndCache(path)
    \/ \E path \in DOMAIN fs : MgrUnregister(path)
    \/ \E filename \in MgrNames : MgrFind(filename)
    \/ \E filename \in MgrNames : MgrRead(filename)
    \/ \E filename \in MgrNames : MgrGetPtr(filename)
    \/ \E path \in DOMAIN fs : MgrCache(path)
    \/ \E path \in DOMAIN fs : MgrUncache(path)

SpecMgr == MgrInit /\ [][MgrNext]_vars

\* ------------------------------------------------------------------------
\* C1: whenever lcw_compress(s, buf) succeeds, lcw_decompress of exactly the
\* bytes it produced, into a buffer of at least Len(s) bytes, returns
\* Ok(Len(s)) and the first Len(s) bytes of the buffer equal s.
\* ------------------------------------------------------------------------
C1_RoundTrip ==
    (lcw_dec.some /\ lcw_dec.val.dest_len >= Len(lcw_source)) =>
        /\ lcw_dec.val.res.ok
        /\ lcw_dec.val.res.val.n = Len(lcw_source)
        /\ SubSeq(lcw_dec.val.res.val.dest, 1, Len(lcw_source)) = lcw_source

\* a run that needs an overlapping back-reference came back intact
C1_Witness ==
    /\ lcw_dec.some /\ lcw_dec.val.res.ok
    /\ lcw_dec.val.dest_len >= Len(lcw_source)
    /\ Len(lcw_source) = MaxLcwLen
    /\ \E i \in 1..Len(lcw_comp.val.val) - 1 :
           lcw_comp.val.val[i] \in 1..127 /\ lcw_comp.val.val[i + 1] = 1
    /\ Len(lcw_comp.val.val) < Len(lcw_source)
    /\ SubSeq(lcw_dec.val.res.val.dest, 1, Len(lcw_source)) = lcw_source

\* ------------------------------------------------------------------------
\* Vocabulary of the archive claims
\* ------------------------------------------------------------------------

\* the table is in ascending order of the signed keys
IsSorted(entries) == \A i \in 1..(Len(entries) - 1) : entries[i].crc <= entries[i + 1].crc

\* the key a file name is stored under
KeyOf(name) == u32_as_i32(westwood_crc_filename(name))

\* some entry of the table has the key
HasKey(entries, key) == \E i \in 1..Len(entries) : entries[i].crc = key

\* offset + size of the entry lies within the data section of the archive
InPayload(self, entry) ==
    u32_as_usize(entry.offset) + u32_as_usize(entry.size)
        <= u32_as_usize(self.header.data_size)

\* the FileHeader and SubBlock bytes of an archive file, in the clear
FileIndex(file) ==
    LET ext == file[1] = 0 /\ file[2] = 0
        enc == ext /\ (file[3] \div 2) % 2 = 1
    IN  IF ~ext THEN file
        ELSE IF ~enc THEN SubSeq(file, 5, Len(file))
        ELSE LET bf     == bf_set_key(decrypt_mix_key(SubSeq(file, 5, 84)))
                 block(k) == bf_decrypt(bf, SubSeq(file, 84 + 8 * k - 7, 84 + 8 * k))
                 first  == block(1)
                 blocks == (6 + 12 * (first[1] + 256 * first[2]) + 7) \div 8
             IN  Loop(LAMBDA t : [k |-> t.k + 1, out |-> t.out \o block(t.k)],
                      LAMBDA t : t.k <= blocks,
                      [k |-> 2, out |-> first], blocks).out

\* the entry table an archive file holds, in file order
FileTable(file) ==
    LET index == FileIndex(file)
    IN  [i \in 1..(index[1] + 256 * index[2]) |->
            MixEntry_from_bytes(SubSeq(index, 12 * i - 5, 12 * i + 6))]

\* ------------------------------------------------------------------------
\* C2: in a plain-format archive with a sorted table, for every stored file
\* name N, find(N) returns an entry with N's key and returns the same entry
\* for N in upper and in lower case; read(N) returns exactly the entry.size
\* bytes of the file at position 6 + 12n + entry.offset, whenever the entry
\* lies within the data section and the file holds the whole data section.
\* ------------------------------------------------------------------------
C2_FindAndRead ==
    (/\ mf.some /\ mf_ret.op \in {"find", "read"}
     /\ ~mf.val.header.is_extended
     /\ IsSorted(mf.val.entries)
     /\ HasKey(mf.val.entries, KeyOf(mf_ret.name))) =>
        LET self  == mf.val
            file  == fs[MixPath].val
            found == MixFile_find(self, mf_ret.name)
            start == 6 + 12 * Len(self.entries)
            at    == start + u32_as_usize(found.val.offset)
        IN  /\ found.some
            /\ found.val.crc = KeyOf(mf_ret.name)
            /\ \E i \in 1..Len(self.entries) : self.entries[i] = found.val
            /\ \A v \in Spellings : MixFile_find(self, Spell(v, mf_ret.name)) = found
            /\ mf_ret.op = "find" => mf_ret.res = found
            /\ (/\ mf_ret.op = "read"
                /\ InPayload(self, found.val)
                /\ start + u32_as_usize(self.header.data_size) <= Len(file)) =>
                   mf_ret.res = Ok(SubSeq(file, at + 1,
                                          at + u32_as_usize(found.val.size)))

\* read("b") on the uncached plain archive of "A" and "B" gave the two bytes
\* of the second entry
C2_Witness ==
    /\ mf.some /\ ~mf.val.header.is_extended /\ ~MixFile_is_cached(mf.val)
    /\ Len(mf.val.entries) = 2
    /\ mf.val.entries[1].crc < mf.val.entries[2].crc
    /\ mf_ret.op = "read" /\ mf_ret.name = <<98>>
    /\ mf_ret.res = Ok(<<13, 14>>)
    /\ MixFile_find(mf.val, <<66>>) = Some(mf.val.entries[2])

\* ------------------------------------------------------------------------
\* C3: westwood_crc_filename is ASCII-case-insensitive: the hash of a name,
\* of its upper-cased spelling and of its lower-cased spelling are equal.
\* ------------------------------------------------------------------------
C3_CaseInsensitive ==
    \A v, w \in Spellings :
        (name_hash[v].some /\ name_hash[w].some) => name_hash[v].val = name_hash[w].val

HasLower(s) == \E i \in 1..Len(s) : s[i] \in 97..122

HasUpper(s) == \E i \in 1..Len(s) : s[i] \in 65..90

C3_Witness ==
    /\ HasLower(crc_data) /\ HasUpper(crc_data) /\ Len(crc_data) = MaxCrcLen
    /\ \A v \in Spellings : name_hash[v].some
    /\ name_hash["upper"].val = name_hash["lower"].val
    /\ name_hash["orig"].val /= westwood_crc(crc_data)

\* ------------------------------------------------------------------------
\* C4: feeding a byte string to WestwoodCrc::update in consecutive chunks
\* (any sizes, empty ones included) and calling finalize gives the value of
\* the one-shot westwood_crc over the bytes fed so far, hence over the whole
\* string once all of it is fed.
\* ------------------------------------------------------------------------
C4_StreamingEqualsOneShot ==
    crc_out.some =>
        crc_out.val.value = westwood_crc(SubSeq(crc_data, 1, crc_out.val.at))

C4_Witness ==
    /\ crc_out.some
    /\ crc_out.val.at = Len(crc_data)
    /\ Len(crc_data) = MaxCrcLen
    /\ crc_data[4] = 255
    /\ crc_out.val.value = westwood_crc(crc_data)
    /\ crc_out.val.value.hi >= 32768


\* ------------------------------------------------------------------------
\* C5: whenever find_by_crc(k) returns Some(e), sorted table or not, e is an
\* entry of the table and e.crc = k; on a table sorted ascending by signed
\* key (keys with the top bit set first) it returns Some iff some entry has
\* key k.
\* ------------------------------------------------------------------------
C5_FindByCrc ==
    (mf.some /\ mf_ret.op = "find_by_crc") =>
        LET entries == mf.val.entries
            r == mf_ret.res
        IN  /\ r.some => /\ r.val.crc = mf_ret.crc
                         /\ \E i \in 1..Len(entries) : entries[i] = r.val
            /\ IsSorted(entries) => (r.some <=> HasKey(entries, mf_ret.crc))

\* a key with the top bit set was found in front of a non-negative one
C5_Witness ==
    /\ mf.some /\ mf_ret.op = "find_by_crc"
    /\ Len(mf.val.entries) = MaxEntries
    /\ IsSorted(mf.val.entries)
    /\ mf.val.entries[1].crc < 0 /\ mf.val.entries[MaxEntries].crc > 0
    /\ mf_ret.crc = mf.val.entries[1].crc
    /\ mf_ret.res = Some(mf.val.entries[1])

\* ------------------------------------------------------------------------
\* C6: for every MixFile a successful open returned, and after any later
\* cache / uncache / find / read calls, the entries table holds the records
\* of the file's entry table in file order: open neither sorts nor rejects,
\* and no later call changes the table.  It is sorted exactly when the
\* file's table is.
\* ------------------------------------------------------------------------
C6_EntriesAsInFile ==
    [][/\ (mf_ret'.op = "open" /\ mf'.some) =>
              /\ mf'.val.entries = FileTable(fs[MixPath].val)
              /\ IsSorted(mf'.val.entries) <=> IsSorted(FileTable(fs[MixPath].val))
       /\ mf.some => (mf'.some /\ mf'.val.entries = mf.val.entries)
      ]_vars

\* C6 as the specification states it: the table of an open archive is sorted
C6_EntriesSorted == mf.some => IsSorted(mf.val.entries)

\* an archive opened from a file with a descending table, cached and
\* uncached again, then read from
C6_Witness ==
    /\ mf.some /\ mf_last = "uncache" /\ mf_ret.op = "read" /\ mf_ret.res.ok
    /\ Len(mf.val.entries) >= 2
    /\ mf.val.entries[1].crc > mf.val.entries[2].crc
    /\ mf.val.entries = FileTable(fs[MixPath].val)

\* ------------------------------------------------------------------------
\* C7: read_entry on an entry whose offset + size exceeds header.data_size
\* returns an error, whether the payload is cached or read from the file.
\* ------------------------------------------------------------------------
C7_ReadEntryBounds ==
    (mf.some /\ mf_ret.op = "read_entry" /\ ~InPayload(mf.val, mf_ret.entry)) =>
        ~mf_ret.res.ok

\* ------------------------------------------------------------------------
\* C8: across every cache() and uncache() call on an open archive:
\* is_cached() holds afterwards iff the most recent call that succeeded in
\* setting or dropping the buffer was a cache(); cache() on a cached archive
\* returns Ok and keeps the buffer; uncache() on an uncached archive changes
\* nothing; a failing cache() leaves the archive uncached; header, entries
\* and data_start never change.
\* ------------------------------------------------------------------------
C8_CacheUncache ==
    [][(mf.some /\ mf'.some) =>
          /\ mf'.val.header = mf.val.header
          /\ mf'.val.entries = mf.val.entries
          /\ mf'.val.data_start = mf.val.data_start
          /\ mf'.val.path = mf.val.path
          /\ MixFile_is_cached(mf'.val) <=> (mf_last' = "cache")
          /\ (mf_ret'.op = "cache" /\ MixFile_is_cached(mf.val)) =>
                 (mf_ret'.res.ok /\ mf'.val.cached_data = mf.val.cached_data)
          /\ (mf_ret'.op = "cache" /\ ~mf_ret'.res.ok) =>
                 (~MixFile_is_cached(mf'.val) /\ mf' = mf)
          /\ (mf_ret'.op = "cache" /\ mf_ret'.res.ok) =>
                 mf'.val.cached_data =
                     Some(SubSeq(fs[MixPath].val, mf.val.data_start + 1,
                                 mf.val.data_start + u32_as_usize(mf.val.header.data_size)))
          /\ (mf_ret'.op = "uncache" /\ ~MixFile_is_cached(mf.val)) => mf' = mf
          /\ mf_ret'.op = "uncache" => ~MixFile_is_cached(mf'.val)
          /\ mf_ret'.op \notin {"cache", "uncache"} => mf' = mf
      ]_vars

\* cache() on an archive an earlier cache() had filled, after an uncache()
C8_Witness ==
    /\ mf.some /\ mf_ret.op = "cache" /\ mf_ret.was_cached /\ mf_ret.res.ok
    /\ mf_last = "cache"
    /\ MixFile_is_cached(mf.val)
    /\ Len(mf.val.cached_data.val) = 2 * MaxEntries

\* ------------------------------------------------------------------------
\* C9: open treats a file as extended iff its first 16-bit little-endian
\* field is zero, has_digest being bit 0 and is_encrypted bit 1 of the next
\* 16-bit word; any other file is plain with the three flags false.  On
\* success entries.len() is the entry count n, and data_start is 6 + 12n for
\* a plain, 10 + 12n for an extended unencrypted and
\* 84 + round_up_to_8(6 + 12n) for an encrypted archive.
\* ------------------------------------------------------------------------
C9_OpenFormat ==
    mf.some =>
        LET file == fs[MixPath].val
            h    == mf.val.header
            n    == h.file_count
            ext  == file[1] = 0 /\ file[2] = 0
        IN  /\ h.is_extended = ext
            /\ h.has_digest = (ext /\ file[3] % 2 = 1)
            /\ h.is_encrypted = (ext /\ (file[3] \div 2) % 2 = 1)
            /\ Len(mf.val.entries) = n
            /\ ~ext => n = file[1] + 256 * file[2]
            /\ (ext /\ ~h.is_encrypted) => n = file[5] + 256 * file[6]
            /\ mf.val.data_start =
                   IF ~ext THEN 6 + 12 * n
                   ELSE IF ~h.is_encrypted THEN 10 + 12 * n
                   ELSE 84 + 8 * ((6 + 12 * n + 7) \div 8)

\* an encrypted archive with a digest and MaxEntries entries was opened
C9_Witness ==
    /\ mf.some /\ mf_ret.op = "open"
    /\ mf.val.header.is_extended /\ mf.val.header.is_encrypted /\ mf.val.header.has_digest
    /\ mf.val.header.file_count = MaxEntries
    /\ Len(mf.val.entries) = MaxEntries
    /\ mf.val.data_start = 84 + 8 * ((6 + 12 * MaxEntries + 7) \div 8)
    /\ mf.val.data_start + 2 * MaxEntries + 20 = Len(fs[MixPath].val)

\* ------------------------------------------------------------------------
\* C10: register and register_and_cache append the opened archive behind
\* the registered ones, or change nothing when they fail; unregister(path)
\* removes the earliest archive with that path and keeps the others in
\* order, or returns false and changes nothing; find(name) returns the
\* entry, and read(name) that entry's bytes, of the earliest registered
\* archive that contains the key; find returns None and read FileNotFound
\* iff no registered archive contains it.
\* ------------------------------------------------------------------------
Containing(ms, name) == {i \in 1..Len(ms) : MixFile_contains(ms[i], name)}

Earliest(S) == CHOOSE i \in S : \A j \in S : i <= j

C11_MaxSizeSuffices ==
    (lcw_comp.some /\ lcw_cap = lcw_max_compressed_size(Len(lcw_source))) =>
        lcw_comp.val.ok

\* ------------------------------------------------------------------------
\* Vocabulary of the decoder claims: the commands of a stream as section 4.6
\* of the specification delimits them.  A literal is [kind, at, count, src,
\* long]: count bytes that follow source[src] go to the output after its first
\* at bytes, and long tells the two-byte form.  A back-reference is [kind, at, count, offset].  The list ends with
\* "end" at the 0x00 command, with "bad_offset" at a back-reference whose
\* offset is 0 or exceeds at (the output has at bytes when the decoder reaches
\* it, provided the buffer has room for them), with "cut" at a command whose bytes the stream
\* does not hold, and with nothing more when the stream is used up.
\* ------------------------------------------------------------------------
RECURSIVE Commands(_, _, _)
Commands(source, pos, at) ==
    IF pos >= Len(source) THEN <<>>
    ELSE LET cmd   == source[pos + 1]
             long  == cmd >= 192
             data  == IF long THEN pos + 2 ELSE pos + 1
             lo    == source[pos + 2]
             count == IF long THEN ((cmd - 192) * 256 + lo) + 1
                      ELSE IF cmd >= 128 THEN (cmd - 128) + 1
                      ELSE (cmd \div 16) + 3
             offset == (cmd % 16) * 256 + lo
         IN  IF cmd = 0 THEN <<[kind |-> "end", pos |-> pos]>>
             ELSE IF cmd >= 128
             THEN IF (long /\ pos + 1 >= Len(source)) \/ data + count > Len(source)
                  THEN <<[kind |-> "cut"]>>
                  ELSE <<[kind |-> "literal", at |-> at, count |-> count, src |-> data,
                          long |-> long]>>
                       \o Commands(source, data + count, at + count)
             ELSE IF pos + 1 >= Len(source) THEN <<[kind |-> "cut"]>>
             ELSE IF offset = 0 \/ offset > at
             THEN <<[kind |-> "bad_offset", at |-> at, offset |-> offset]>>
             ELSE <<[kind |-> "backref", at |-> at, count |-> count, offset |-> offset]>>
                  \o Commands(source, pos + 2, at + count)

\* the commands of the stream handed to lcw_decompress
Trace == Commands(lcw_raw.val.source, 0, 0)

\* the copying commands among them
Copies == {k \in 1..Len(Trace) : Trace[k].kind \in {"literal", "backref"}}

\* the stream is decodable to its end: no command is cut or has a bad offset
Decodable == \A k \in 1..Len(Trace) : Trace[k].kind \notin {"cut", "bad_offset"}

\* the number of bytes the stream decodes to
Decoded ==
    IF Copies = {} THEN 0
    ELSE LET last == CHOOSE k \in Copies : \A j \in Copies : j <= k
         IN  Trace[last].at + Trace[last].count

\* ------------------------------------------------------------------------
\* C12: whenever lcw_decompress reaches a back-reference whose offset is 0 or
\* is greater than the number of bytes produced so far, it returns
\* InvalidData; it never panics on an index out of range.
\* ------------------------------------------------------------------------
C12_InvalidOffset ==
    lcw_raw.some =>
        /\ (/\ Trace /= <<>>
            /\ Trace[Len(Trace)].kind = "bad_offset"
            /\ Trace[Len(Trace)].at <= lcw_raw.val.dest_len) =>
               lcw_raw.val.res = Err("InvalidData")
        /\ lcw_raw.val.res /= Err("panic")

\* a literal was produced, and the back-reference after it points before the
\* start of the output
C12_Witness ==
    /\ lcw_raw.some
    /\ Len(Trace) = 2
    /\ Trace[1].kind = "literal"
    /\ Trace[2].kind = "bad_offset"
    /\ Trace[2].offset > Trace[2].at
    /\ Trace[2].at <= lcw_raw.val.dest_len
    /\ lcw_raw.val.res = Err("InvalidData")

\* ------------------------------------------------------------------------
\* C13: a back-reference with a valid offset and enough room in the output
\* appends exactly count = ((cmd >> 4) & 7) + 3 bytes, each equal to the
\* output byte offset positions before it, bytes written by the same copy
\* included.
\* ------------------------------------------------------------------------
C13_BackReference ==
    (lcw_raw.some /\ Decodable /\ Decoded <= lcw_raw.val.dest_len) =>
        /\ lcw_raw.val.res.ok
        /\ lcw_raw.val.res.val.n = Decoded
        /\ \A k \in Copies :
               Trace[k].kind = "backref" =>
                   \A i \in 1..Trace[k].count :
                       lcw_raw.val.res.val.dest[Trace[k].at + i]
                           = lcw_raw.val.res.val.dest[Trace[k].at + i - Trace[k].offset]

\* literal 'A' then 0x70 0x01: eleven 'A', the copy reading what it wrote
C13_Witness ==
    /\ lcw_raw.some
    /\ lcw_raw.val.source = <<128, 65, 112, 1, 0>>
    /\ lcw_raw.val.res.ok
    /\ lcw_raw.val.res.val.n = 11
    /\ SubSeq(lcw_raw.val.res.val.dest, 1, 11) = [i \in 1..11 |-> 65]

C15_BufferTooSmall ==
    (lcw_raw.some /\ Decodable /\ Decoded > lcw_raw.val.dest_len) =>
        lcw_raw.val.res = Err("BufferTooSmall")

\* ------------------------------------------------------------------------
\* Vocabulary of the hash claims: 32-bit values as numbers, and the fold of
\* section 4.1 of the specification over the 4-byte groups of a byte string
\* ------------------------------------------------------------------------
\* a 32-bit number n is written [hi, lo] with n = hi * 2^16 + lo
Number(hi, lo) == [hi |-> hi, lo |-> lo]

\* n rotated left by one bit: 2n mod 2^32 plus the top bit of n
RotL(n) ==
    Number(((2 * n.hi) % 65536) + (n.lo \div 32768),
           ((2 * n.lo) % 65536) + (n.hi \div 32768))

\* (a + b) mod 2^32
Plus(a, b) ==
    Number((a.hi + b.hi + ((a.lo + b.lo) \div 65536)) % 65536, (a.lo + b.lo) % 65536)

\* the little-endian value of bytes i+1 .. i+4 of data, the bytes past its end
\* taken as zero
Group(data, i) ==
    LET byte(k) == IF i + k <= Len(data) THEN data[i + k] ELSE 0
    IN  Number(byte(3) + (256 * byte(4)), byte(1) + (256 * byte(2)))

\* the fold over the first g groups
RECURSIVE Fold(_, _)
Fold(data, g) ==
    IF g = 0 THEN Number(0, 0)
    ELSE Plus(RotL(Fold(data, g - 1)), Group(data, 4 * (g - 1)))

Called(op) == rsa_ret.some /\ rsa_ret.val.op = op

\* b^e on the naturals
RECURSIVE Power(_, _)
Power(b, e) == IF e = 0 THEN 1 ELSE b * Power(b, e - 1)

\* the BigUint that stands for the natural n < 2^16
Small(n) == <<[hi |-> 0, lo |-> n]>>

\* the base-256 digits of a BigUint, least significant first, n of them
Base256(x, n) ==
    [k \in 1..n |->
        IF (k - 1) \div 4 >= Len(x) THEN 0
        ELSE LET d == x[((k - 1) \div 4) + 1]
             IN  CASE (k - 1) % 4 = 0 -> d.lo % 256
                   [] (k - 1) % 4 = 1 -> d.lo \div 256
                   [] (k - 1) % 4 = 2 -> d.hi % 256
                   [] OTHER -> d.hi \div 256]

\* the k-th column sum of the schoolbook product of two digit strings
RECURSIVE Column(_, _, _, _)
Column(a, b, k, i) ==
    IF i > k THEN 0
    ELSE (IF i <= Len(a) /\ (k + 1) - i <= Len(b) THEN a[i] * b[(k + 1) - i] ELSE 0)
         + Column(a, b, k, i + 1)

\* the carry into column k
RECURSIVE CarryIn(_, _, _)
CarryIn(a, b, k) ==
    IF k = 1 THEN 0
    ELSE (Column(a, b, k - 1, 1) + CarryIn(a, b, k - 1)) \div 256

\* the base-256 digits of the product a * b
Product(a, b) ==
    [k \in 1..(Len(a) + Len(b)) |-> (Column(a, b, k, 1) + CarryIn(a, b, k)) % 256]

\* ------------------------------------------------------------------------
\* C18: the hard-coded public key has a 40-byte modulus, so that
\* plain_block_size() is 39 and crypt_block_size() is 40, the values of
\* RSA_PLAIN_BLOCK_SIZE and RSA_CRYPT_BLOCK_SIZE.
\* ------------------------------------------------------------------------
C18_BlockSizes ==
    Called("block_sizes") =>
        /\ rsa_ret.val.modulus_len = 40
        /\ rsa_ret.val.plain = RSA_PLAIN_BLOCK_SIZE
        /\ rsa_ret.val.crypt = RSA_CRYPT_BLOCK_SIZE

\* ------------------------------------------------------------------------
\* C19: decrypt_mix_key returns 56 bytes: the 39-byte big-endian encoding of
\* the first half's plaintext followed by the first 17 bytes of the 39-byte
\* encoding of the second half's.  A half whose ciphertext c is 0 or 1 has
\* the plaintext c (c^65537 mod n = c), encoded as 38 zero bytes and c.
\* ------------------------------------------------------------------------
C19_KeyLayout ==
    Called("decrypt_mix_key") =>
        /\ Len(rsa_ret.val.res) = 56
        /\ rsa_ret.val.res =
               [i \in 1..56 |-> IF i = RSA_PLAIN_BLOCK_SIZE
                                THEN rsa_ret.val.block[RSA_CRYPT_BLOCK_SIZE] ELSE 0]

\* ------------------------------------------------------------------------
\* C20: mod_pow(base, exp, modulus) returns base^exp mod modulus, a value
\* below modulus, for every base and exp >= 0 and every modulus >= 1.
\* ------------------------------------------------------------------------
C20_ModPow ==
    (Called("mod_pow") /\ rsa_ret.val.modulus >= 1) =>
        /\ rsa_ret.val.res.ok
        /\ rsa_ret.val.res.val =
               Small(Power(rsa_ret.val.base, rsa_ret.val.exp) % rsa_ret.val.modulus)

\* ------------------------------------------------------------------------
\* C24: BigUint::mul(a, b) returns the product a * b, for operands of
\* several digits with digits as large as 2^32 - 1 as well.
\* ------------------------------------------------------------------------
C24_MulExact ==
    Called("mul") =>
        Base256(rsa_ret.val.res, 4 * (Len(rsa_ret.val.a) + Len(rsa_ret.val.b)))
            = Product(Base256(rsa_ret.val.a, 4 * Len(rsa_ret.val.a)),
                      Base256(rsa_ret.val.b, 4 * Len(rsa_ret.val.b)))

\* ------------------------------------------------------------------------
\* Vocabulary of the match-finder claim
\* ------------------------------------------------------------------------

\* the bytes at ref and at pos agree over len bytes
Agree(data, ref, pos, len) == \A k \in 1..len : data[ref + k] = data[pos + k]

\* the lengths in 3..10 of the matches at pos that start offset bytes back
MatchLens(data, pos, offset) ==
    {len \in MIN_MATCH..Min(MAX_BACKREF_MATCH, Len(data) - pos) :
        Agree(data, pos - offset, pos, len)}

\* the offsets in 1..4095 at which pos has a match
MatchOffsets(data, pos) ==
    {offset \in 1..Min(pos, MAX_OFFSET) : MatchLens(data, pos, offset) /= {}}

\* the longest match length at pos, 0 when there is none
Longest(data, pos) ==
    LET lens == UNION {MatchLens(data, pos, offset) : offset \in MatchOffsets(data, pos)}
    IN  IF lens = {} THEN 0 ELSE CHOOSE len \in lens : \A l \in lens : l <= len

\* ------------------------------------------------------------------------
\* C26: find_match(data, pos) returns the longest match of length 3..10 that
\* starts within the previous 4095 bytes and, among the matches of that
\* length, the one with the smallest offset; it returns length 0 when there
\* is no match of 3 bytes or more.
\* ------------------------------------------------------------------------
C26_ClosestLongest ==
    lcw_match.some =>
        LET pos  == lcw_match.val.pos
            best == Longest(lcw_source, pos)
        IN  /\ lcw_match.val.res.len = best
            /\ best > 0 =>
                   /\ best \in MatchLens(lcw_source, pos, lcw_match.val.res.offset)
                   /\ \A offset \in MatchOffsets(lcw_source, pos) :
                          best \in MatchLens(lcw_source, pos, offset) =>
                              lcw_match.val.res.offset <= offset

\* the commands of the stream lcw_compress produced
Emitted == Commands(lcw_comp.val.val, 0, 0)

\* ------------------------------------------------------------------------
\* C27: in every stream a successful lcw_compress produces, the last byte is
\* the 0x00 end marker and no command byte before it is 0x00 (a 3-byte match
\* at an offset below 256 is emitted as literal bytes), every back-reference
\* has a count in 3..10 and an offset in 1..4095 that does not exceed the
\* number of source bytes encoded before it, and every literal run is a short
\* literal of 1..63 bytes.
\* ------------------------------------------------------------------------
C27_StreamShape ==
    (lcw_comp.some /\ lcw_comp.val.ok) =>
        /\ Emitted /= <<>>
        /\ Emitted[Len(Emitted)].kind = "end"
        /\ Emitted[Len(Emitted)].pos + 1 = Len(lcw_comp.val.val)
        /\ \A k \in 1..(Len(Emitted) - 1) :
               \/ /\ Emitted[k].kind = "literal"
                  /\ ~Emitted[k].long
                  /\ Emitted[k].count \in 1..63
                  /\ Emitted[k].at + Emitted[k].count <= Len(lcw_source)
               \/ /\ Emitted[k].kind = "backref"
                  /\ Emitted[k].count \in MIN_MATCH..MAX_BACKREF_MATCH
                  /\ Emitted[k].offset \in 1..MAX_OFFSET
                  /\ Emitted[k].offset <= Emitted[k].at
                  /\ Emitted[k].at + Emitted[k].count <= Len(lcw_source)

\* a 3-byte match at an offset below 256 was passed over: the stream is one
\* literal run although the source repeats its first three bytes
C27_Witness ==
    /\ lcw_comp.some /\ lcw_comp.val.ok
    /\ Len(lcw_source) = 6
    /\ SubSeq(lcw_source, 1, 3) = SubSeq(lcw_source, 4, 6)
    /\ lcw_source[1] /= lcw_source[2]
    /\ Len(Emitted) = 2
    /\ Emitted[1].kind = "literal" /\ Emitted[1].count = 6

\* ------------------------------------------------------------------------
\* C29: for every source and every destination buffer, truncated streams,
\* malformed commands and literal counts beyond the input or the output
\* included, lcw_decompress returns Ok(k) with k <= dest.len() or an error;
\* it indexes neither source nor dest out of bounds, and a back-reference
\* reads only below the current output position: no byte of the k produced
\* is a byte the buffer held before the call (0xFF, which no stream holds).
\* ------------------------------------------------------------------------
C29_DecoderSafe ==
    lcw_raw.some =>
        \/ lcw_raw.val.res = Err("InvalidData")
        \/ /\ lcw_raw.val.res.ok
           /\ lcw_raw.val.res.val.n <= lcw_raw.val.dest_len
           /\ Len(lcw_raw.val.res.val.dest) = lcw_raw.val.dest_len
           /\ \A i \in 1..lcw_raw.val.res.val.n : lcw_raw.val.res.val.dest[i] /= 255
           /\ \A i \in (lcw_raw.val.res.val.n + 1)..lcw_raw.val.dest_len :
                  lcw_raw.val.res.val.dest[i] = 255

\* a back-reference of 10 bytes cut short by a buffer of 3 bytes, and a
\* literal of 4 bytes cut short by the end of the stream
C29_Witness ==
    /\ lcw_raw.some
    /\ lcw_raw.val.res.ok
    /\ \/ /\ lcw_raw.val.source = <<128, 65, 112, 1, 0>>
          /\ lcw_raw.val.dest_len = 3
          /\ lcw_raw.val.res.val.n = 3
       \/ /\ lcw_raw.val.source = <<131, 72>>
          /\ lcw_raw.val.dest_len = MaxRoom
          /\ lcw_raw.val.res.val.n = 1

\* ------------------------------------------------------------------------
\* Vocabulary of the encrypted-archive claims
\* ------------------------------------------------------------------------

\* the file on disk is an extended archive with the encrypted flag
EncryptedFile(file) ==
    Len(file) >= 4 /\ file[1] = 0 /\ file[2] = 0 /\ (file[3] \div 2) % 2 = 1

\* the first 8 bytes of the index of an encrypted file, in the clear
FirstBlock(file) ==
    bf_decrypt(bf_set_key(decrypt_mix_key(SubSeq(file, 5, 84))), SubSeq(file, 85, 92))

\* the entry count an encrypted file declares
DeclaredCount(file) == FirstBlock(file)[1] + 256 * FirstBlock(file)[2]

\* round_up_to_8(6 + 12 n)
IndexRegion(n) == 8 * ((6 + 12 * n + 7) \div 8)

\* ------------------------------------------------------------------------
\* C21: opening an encrypted archive whose file ends before the index region
\* that its decrypted entry count implies (round_up_to_8(6 + 12 n) bytes after
\* the key block) fails with DecryptionFailed.
\* ------------------------------------------------------------------------
C21_ShortIndex ==
    (/\ mf_ret.op = "open"
     /\ fs[MixPath].some
     /\ EncryptedFile(fs[MixPath].val)
     /\ Len(fs[MixPath].val) >= 92
     /\ Len(fs[MixPath].val) < 84 + IndexRegion(DeclaredCount(fs[MixPath].val))) =>
        mf_ret.res = Err("DecryptionFailed")

\* ------------------------------------------------------------------------
\* Vocabulary of the parser claims
\* ------------------------------------------------------------------------

\* the 32-bit number with the little-endian bytes data[i + 1 .. i + 4]
LittleEndian32(data, i) ==
    Number(data[i + 3] + (256 * data[i + 4]), data[i + 1] + (256 * data[i + 2]))

\* ------------------------------------------------------------------------
\* C22: MixHeader::from_bytes returns InvalidHeader iff the slice has fewer
\* than 6 bytes; otherwise file_count is the little-endian u16 of bytes 0..2,
\* data_size the little-endian u32 of bytes 2..6, the three flags are false,
\* and header_size() is 6 + 12 * file_count, for file counts up to 65535 (126
\* for 10 entries).
\* ------------------------------------------------------------------------
C22_HeaderFromBytes ==
    mf_ret.op = "header_from_bytes" =>
        LET data == mf_ret.data
        IN  /\ (mf_ret.res = Err("InvalidHeader")) = (Len(data) < 6)
            /\ Len(data) >= 6 =>
                   /\ mf_ret.res.ok
                   /\ mf_ret.res.val.file_count = data[1] + (256 * data[2])
                   /\ mf_ret.res.val.data_size = LittleEndian32(data, 2)
                   /\ ~mf_ret.res.val.is_extended
                   /\ ~mf_ret.res.val.has_digest
                   /\ ~mf_ret.res.val.is_encrypted
                   /\ mf_ret.header_size = Some(6 + (12 * (data[1] + (256 * data[2]))))
                   /\ (data[1] = 10 /\ data[2] = 0) => mf_ret.header_size = Some(126)

\* the largest file count, in a slice of more than 6 bytes
C22_Witness ==
    /\ mf_ret.op = "header_from_bytes"
    /\ Len(mf_ret.data) = 7
    /\ mf_ret.data[1] = 255 /\ mf_ret.data[2] = 255 /\ mf_ret.data[3] = 10
    /\ mf_ret.res.ok
    /\ mf_ret.res.val.file_count = 65535
    /\ mf_ret.header_size = Some(786426)

\* ------------------------------------------------------------------------
\* C23: MixEntry::from_bytes maps a 12-byte record to key = bytes 0..4 as a
\* little-endian signed 32-bit value, offset = bytes 4..8 and size = bytes
\* 8..12 as little-endian unsigned 32-bit values; a key with its top bit set
\* is negative.
\* ------------------------------------------------------------------------
C23_EntryFromBytes ==
    mf_ret.op = "entry_from_bytes" =>
        LET data == mf_ret.data
            low  == data[1] + (256 * data[2]) + (65536 * data[3])
        IN  /\ mf_ret.res.crc =
                   IF data[4] >= 128 THEN low + (16777216 * (data[4] - 256))
                   ELSE low + (16777216 * data[4])
            /\ (mf_ret.res.crc < 0) = (data[4] >= 128)
            /\ mf_ret.res.offset = LittleEndian32(data, 4)
            /\ mf_ret.res.size = LittleEndian32(data, 8)

\* the record of the unit test, and one with the top bit of the key set
C23_Witness ==
    /\ mf_ret.op = "entry_from_bytes"
    /\ \/ /\ mf_ret.data = <<18, 52, 86, 120, 170, 187, 204, 221, 16, 32, 0, 0>>
          /\ mf_ret.res.crc = 2018915346
          /\ mf_ret.res.offset = Number(56780, 48042)
          /\ mf_ret.res.size = Number(0, 8208)
       \/ /\ mf_ret.data[4] = 128
          /\ mf_ret.res.crc < 0

\* ------------------------------------------------------------------------
\* C25: opening an encrypted archive consumes exactly round_up_to_8(6 + 12 n)
\* bytes after the 80-byte key block, and the header and entries returned are
\* those of the decrypted bytes parsed as a plain index: the header from
\* decrypted bytes 0..6, entry i from decrypted bytes 6 + 12 i .. 18 + 12 i,
\* the padding after the last entry ignored.
\* ------------------------------------------------------------------------
C25_DecryptedIndex ==
    (/\ mf_ret.op = "open" /\ mf_ret.res.ok
     /\ EncryptedFile(fs[MixPath].val)) =>
        LET clear == FileIndex(fs[MixPath].val)
            plain == MixHeader_from_bytes(SubSeq(clear, 1, 6))
            n     == mf.val.header.file_count
        IN  /\ Len(clear) = IndexRegion(n)
            /\ mf.val.data_start = 84 + Len(clear)
            /\ plain.ok
            /\ n = plain.val.file_count
            /\ mf.val.header.data_size = plain.val.data_size
            /\ Len(mf.val.entries) = n
            /\ \A i \in 0..(n - 1) :
                   mf.val.entries[i + 1] =
                       MixEntry_from_bytes(SubSeq(clear, 6 + 12 * i + 1, 18 + 12 * i))

\* an encrypted archive of MaxEntries entries is open, its index padded
C25_Witness ==
    /\ mf_ret.op = "open" /\ mf_ret.res.ok
    /\ EncryptedFile(fs[MixPath].val)
    /\ mf.val.header.file_count = MaxEntries
    /\ IndexRegion(MaxEntries) > 6 + 12 * MaxEntries
    /\ mf.val.entries[1].crc # 0

\* ------------------------------------------------------------------------
\* C28: for every archive opened successfully, header.total_header_size() is
\* the number of bytes from the start of the file to the data section, i.e.
\* data_start, whether the archive is plain, extended or encrypted.
\* ------------------------------------------------------------------------
C28_TotalHeaderSize ==
    (mf_ret.op = "open" /\ mf_ret.res.ok) =>
        MixHeader_total_header_size(mf.val.header) = mf.val.data_start

\* ------------------------------------------------------------------------
\* C30: whenever MixManager::get_ptr(name) returns Some(bytes), the bytes are
\* those of the archive and entry that MixManager::find(name) resolves to,
\* the earliest registered archive holding the key, and so equal what
\* MixManager::read(name) returns, whichever of the registered archives are
\* cached.
\* ------------------------------------------------------------------------
C30_GetPtrAsRead ==
    (mgr_ret.op = "get_ptr" /\ mgr_ret.res.some) =>
        LET found == MixManager_find(mixes, mgr_ret.name)
        IN  /\ found.some
            /\ found.val.mix = Earliest(Containing(mixes, mgr_ret.name))
            /\ MixManager_read(mixes, mgr_ret.name) = Ok(mgr_ret.res.val)

====
